---------------------------- MODULE Spec2Model ----------------------------
(***************************************************************************)
(* ZPRD router core: routing table (route_via_t), peer registry, ZPRN v2   *)
(* handlers, ingress pipeline (route_packet / route6_packet), cleanup tick *)
(* of the main loop and the sender queues.                                 *)
(*                                                                         *)
(* Peer objects (remote_peer_detail_t behind shared_ptr) live in the heap  *)
(* pdat; a peer is named by its index there.  Index 0 is main()'s          *)
(* local_router, index -1 the anonymous local peer resolve_route returns.  *)
(* Socket addresses are naturals ordered as operator< orders them, 0 is    *)
(* AF_UNSPEC.  Inner addresses are small naturals with their bytes in a    *)
(* table.                                                                   *)
(***************************************************************************)
EXTENDS Integers, Sequences, FiniteSets, TLC

VARIABLES
  pdat,          \* heap of peer objects: Seq of [saddr, seen, cent, to_discard]
  remotes,       \* static vector<remote_peer_detail_ptr_t> remotes (peer indices)
  routes,        \* unordered_map<inner_addr_t, route_via_t>
  ping_cache,    \* static ping_cache_t ping_cache
  last_time,     \* time_t last_time
  pastt_clu,     \* main(): time of the last cleanup
  found_remotes, \* main(): vector<bool> found_remotes
  tasks,         \* sender_t::_tasks
  zprn_msgs,     \* sender_t::_zprn_msgs
  host_le,       \* the build's byte order (TRUE: little endian)
  ev,            \* the step just completed: operation, peer, input, log lines
  probed,        \* <<dest, router>> pairs a PROBE was emitted for at a cleanup pass
                 \* while router was the primary router of dest
  worker,        \* sender_t::worker_fn: position and the locals tasks, zprn_msgs,
                 \* df, tos, and (sock) the options its setsockopt calls left on
                 \* the server sockets
  stop,          \* sender_t::_stop
  mainpc,        \* main(): "loop", then the steps of the shutdown
  net,           \* what worker_fn handed to sendto() / write() so far, in order
  enqlog         \* the send_data frames sender_t::enqueue accepted so far, as handed in

sender_vars == <<worker, stop, mainpc, net, enqlog>>

vars == <<pdat, remotes, routes, ping_cache, last_time, pastt_clu,
          found_remotes, tasks, zprn_msgs, host_le, ev, probed, sender_vars>>

\* sender_t::start(): _stop is false and the worker waits on the condition,
\* past set_df(false) and set_tos(0)
sender_start ==
  /\ worker = [pc |-> "wait", tasks |-> <<>>, zprn_msgs |-> <<>>, k |-> 0,
               df |-> FALSE, tos |-> 0, sock |-> [df |-> FALSE, tos |-> 0]]
  /\ stop = FALSE
  /\ mainpc = "loop"
  /\ net = <<>>
  /\ enqlog = <<>>

---------------------------------------------------------------------------
(* Bounds of the model *)

MaxPeers == 3
MaxTime == 10
MaxQueue == 1

---------------------------------------------------------------------------
(* Program constants and configuration *)

MAXTTL == 255
ZPRN_ROUTEMOD == 0
ZPRN_CONNMGMT == 1
ZPRN2_PROBE == 3
ZPRN_CONNMGMT_OPEN == 0
ZPRN_CONNMGMT_CLOSE == 255
IAFA_AT_INET == 1
IAFA_AT_INET6 == 2

\* zprd_conf.remote_timeout ('T' statement)
remote_timeout == 4
\* zprd_conf.max_near_rtt ('n' statement)
max_near_rtt == 5

local_router == 0
anon_local == -1

---------------------------------------------------------------------------
(* Inner addresses *)

\* id -> [type, b] : address family tag and the address bytes in network order
\* (an IPv6 address is abridged to its first and its last byte)
AddrTable ==
  [ a \in {1, 2, 3, 4, 5, 6, 7, 8, 21, 22, 23} |->
      CASE a = 1  -> [type |-> IAFA_AT_INET,  b |-> <<10, 0, 0, 1>>]
        [] a = 2  -> [type |-> IAFA_AT_INET,  b |-> <<10, 0, 0, 2>>]
        [] a = 3  -> [type |-> IAFA_AT_INET,  b |-> <<10, 1, 0, 3>>]
        [] a = 4  -> [type |-> IAFA_AT_INET,  b |-> <<10, 0, 0, 4>>]
        [] a = 5  -> [type |-> IAFA_AT_INET,  b |-> <<10, 0, 0, 255>>]
        [] a = 6  -> [type |-> IAFA_AT_INET,  b |-> <<224, 0, 0, 1>>]
        [] a = 7  -> [type |-> IAFA_AT_INET,  b |-> <<10, 0, 0, 225>>]
        [] a = 8  -> [type |-> IAFA_AT_INET,  b |-> <<255, 255, 255, 255>>]
        [] a = 21 -> [type |-> IAFA_AT_INET6, b |-> <<253, 1>>]
        [] a = 22 -> [type |-> IAFA_AT_INET6, b |-> <<253, 2>>]
        [] a = 23 -> [type |-> IAFA_AT_INET6, b |-> <<255, 1>>] ]

InnerAddrs == DOMAIN AddrTable
AddrType(a) == AddrTable[a].type
AddrBytes(a) == AddrTable[a].b

\* 'A' statements: locals (vector<xner_addr_t>), in getifaddrs order
locals == <<1, 21>>
\* 'L' statements
exported_locals == {4}
\* 'B' statements
blocked_broadcast_dsts == {5}

RangeOf(s) == {s[i] : i \in DOMAIN s}

\* variant of am_ii_addr: the exported addresses are never counted
am_ii_addr_unexported(o, with_exported) == o \in RangeOf(locals)

\* am_ii_addr: is the inner address o a local ip?
am_ii_addr(o, with_exported) ==
  \/ o \in RangeOf(locals)
  \/ with_exported /\ o \in exported_locals

is_direct_broadcast(a) ==
  AddrType(a) = IAFA_AT_INET /\ AddrBytes(a) = <<255, 255, 255, 255>>

\* (ip_dst.s_addr >> 28) == 14 : s_addr holds the bytes in network order and is
\* read as a host integer, so its top nibble is the top nibble of the last
\* address byte on a little-endian host and of the first on a big-endian one
is_multicast4(le, a) ==
  LET b == AddrBytes(a)
  IN  IF le THEN b[4] \div 16 = 14 ELSE b[1] \div 16 = 14

\* IN6_IS_ADDR_MULTICAST
is_multicast6(a) == AddrBytes(a)[1] = 255

---------------------------------------------------------------------------
(* Peer objects *)

\* saddr of a peer; the local sentinels are AF_UNSPEC
SA(pd, p) == IF p <= 0 THEN 0 ELSE pd[p].saddr

is_local(pd, p) == SA(pd, p) = 0

\* operator== and operator< of remote_peer_t compare the socket address
PeerEq(pd, a, b) == SA(pd, a) = SA(pd, b)
x_less(pd, a, b) == SA(pd, a) < SA(pd, b)

\* std::lower_bound(first, last, item, x_less), the first/len halving loop,
\* searching for a peer whose socket address is sa
RECURSIVE lower_bound_from(_, _, _, _, _)
lower_bound_from(vec, pd, sa, first, len) ==
  IF len <= 0 THEN first
  ELSE LET half == len \div 2
           mid == first + half
       IN  IF SA(pd, vec[mid]) < sa
           THEN lower_bound_from(vec, pd, sa, mid + 1, len - half - 1)
           ELSE lower_bound_from(vec, pd, sa, first, half)

\* position in 1..Len(vec)+1, Len(vec)+1 is end()
lower_bound(vec, pd, sa) == lower_bound_from(vec, pd, sa, 1, Len(vec))

RemoveAt(s, i) == SubSeq(s, 1, i - 1) \o SubSeq(s, i + 1, Len(s))
InsertAt(s, i, x) == SubSeq(s, 1, i - 1) \o <<x>> \o SubSeq(s, i, Len(s))

rem_peer(vec, pd, item) ==
  LET it == lower_bound(vec, pd, SA(pd, item))
  IN  IF it = Len(vec) + 1 \/ ~PeerEq(pd, vec[it], item)
      THEN vec
      ELSE RemoveAt(vec, it)

---------------------------------------------------------------------------
(* route_via_t *)

via_router_t(addr, hops, now) ==
  [addr |-> addr, seen |-> now, latency |-> 0, hops |-> hops]

empty_route == [routers |-> <<>>, fresh_add |-> FALSE]

\* variant of find_router: shared_ptr identity only
find_router_identity(rs, pd, router) ==
  LET hit == {i \in DOMAIN rs : rs[i].addr = router}
  IN  IF hit = {} THEN 0 ELSE CHOOSE i \in hit : \A j \in hit : i <= j

\* index of the first matching router, 0 for end()
find_router(rs, pd, router) ==
  LET hit == {i \in DOMAIN rs : rs[i].addr = router \/ PeerEq(pd, rs[i].addr, router)}
  IN  IF hit = {} THEN 0 ELSE CHOOSE i \in hit : \A j \in hit : i <= j

\* variant of update_hopcnt: the exception is applied in both directions
update_hopcnt_abs(oldhops, newhops) ==
  IF (newhops - oldhops) \in {190, 191} \/ (oldhops - newhops) \in {190, 191}
  THEN oldhops
  ELSE newhops

update_hopcnt(oldhops, newhops) ==
  IF newhops > oldhops /\ (newhops - oldhops) \in {190, 191}
  THEN oldhops
  ELSE newhops

\* variant of add_router: fresh_add is left as it is
add_router_unflagged(rv, pd, router, hops, now) ==
  LET it == find_router(rv.routers, pd, router)
  IN  IF it = 0
      THEN [rv |-> [rv EXCEPT !.routers = <<via_router_t(router, hops, now)>> \o @],
            ret |-> TRUE]
      ELSE [rv |-> [rv EXCEPT !.routers[it].seen = now,
                              !.routers[it].hops = update_hopcnt(@, hops)],
            ret |-> FALSE]

\* [rv, ret]
add_router(rv, pd, router, hops, now) ==
  LET fresh == IF rv.routers = <<>> THEN TRUE ELSE rv.fresh_add
      it == find_router(rv.routers, pd, router)
  IN  IF it = 0
      THEN [rv |-> [routers |-> <<via_router_t(router, hops, now)>> \o rv.routers,
                    fresh_add |-> fresh],
            ret |-> TRUE]
      ELSE [rv |-> [routers |-> [rv.routers EXCEPT
                                   ![it].seen = now,
                                   ![it].hops = update_hopcnt(@, hops)],
                    fresh_add |-> fresh],
            ret |-> FALSE]

\* variant of update_router: the latency is not stored
update_router_nolatency(rv, pd, router, hops, latency, now) ==
  LET it == find_router(rv.routers, pd, router)
  IN  IF it = 0 THEN rv
      ELSE [rv EXCEPT !.routers[it].seen = now,
                      !.routers[it].hops = update_hopcnt(@, hops)]

update_router(rv, pd, router, hops, latency, now) ==
  LET it == find_router(rv.routers, pd, router)
  IN  IF it = 0 THEN rv
      ELSE [rv EXCEPT !.routers[it].seen = now,
                      !.routers[it].hops = update_hopcnt(@, hops),
                      !.routers[it].latency = latency]

\* variant of del_router: nothing is removed
del_router_nothing(rv, router) == [rv |-> rv, ret |-> FALSE]

\* [rv, ret] : remove_if(router == a.addr), shared_ptr identity
del_router(rv, router) ==
  LET keep(a) == a.addr # router
      rs == SelectSeq(rv.routers, keep)
  IN  [rv |-> [rv EXCEPT !.routers = rs], ret |-> Len(rs) # Len(rv.routers)]

del_primary_router(rv) == [rv EXCEPT !.routers = Tail(@)]

\* comparator of route_via_t::cleanup's sort
router_less(a, b) ==
  \/ a.hops < b.hops
  \/ a.hops = b.hops /\ a.latency < b.latency
  \/ a.hops = b.hops /\ a.latency = b.latency /\ b.seen < a.seen

\* std::forward_list::sort is a stable merge sort: the result is the stable
\* ordering by router_less, built here by stable insertion
RECURSIVE stable_insert(_, _)
stable_insert(sorted, x) ==
  IF sorted = <<>> THEN <<x>>
  ELSE IF router_less(x, Head(sorted))
       THEN <<x>> \o sorted
       ELSE <<Head(sorted)>> \o stable_insert(Tail(sorted), x)

RECURSIVE stable_sort_from(_, _)
stable_sort_from(done, rest) ==
  IF rest = <<>> THEN done
  ELSE stable_sort_from(stable_insert(done, Head(rest)), Tail(rest))

\* variant of routers_sort: the list is left in the order it has
routers_unsorted(rs) == rs

routers_sort(rs) == stable_sort_from(<<>>, rs)

\* variant of cleanup: a router whose seen is exactly now - 2 * remote_timeout
\* is kept
cleanup_strict(rv, now) ==
  LET ct == now - 2 * remote_timeout
      keep(a) == ct <= a.seen
      drop(a) == ~(ct <= a.seen)
  IN  [rv |-> [rv EXCEPT !.routers = routers_sort(SelectSeq(rv.routers, keep))],
       dropped |-> SelectSeq(rv.routers, drop)]

\* [rv, dropped] : dropped are the routers handed to the callback, in order
cleanup(rv, now) ==
  LET ct == now - 2 * remote_timeout
      keep(a) == ct < a.seen
      drop(a) == ~(ct < a.seen)
  IN  [rv |-> [rv EXCEPT !.routers = routers_sort(SelectSeq(rv.routers, keep))],
       dropped |-> SelectSeq(rv.routers, drop)]

---------------------------------------------------------------------------
(* sender_t::enqueue and the ZPRN emitters of main.cxx *)

null_peer == -2

\* variant of enqueue(send_data&&): the frame is put in front of the queue
enqueue_data_front(q, pd, dat) ==
  IF dat.dests = <<>> THEN q
  ELSE IF is_local(pd, dat.dests[1])
       THEN <<[dat EXCEPT !.dests = <<>>]>> \o q
       ELSE <<dat>> \o q

\* sender_t::enqueue(send_data&&): nothing is queued for an empty destination
\* list; a list whose front is local is cleared (delivery to the tun device)
enqueue_data(q, pd, dat) ==
  IF dat.dests = <<>> THEN q
  ELSE IF is_local(pd, dat.dests[1])
       THEN Append(q, [dat EXCEPT !.dests = <<>>])
       ELSE Append(q, dat)

\* sender_t::enqueue(zprn2_sdat&&): null and local destinations are removed
enqueue_zprn(q, pd, dat) ==
  LET ok(x) == ~(x = null_peer \/ is_local(pd, x))
      ds == SelectSeq(dat.dests, ok)
  IN  IF ds = <<>> THEN q ELSE Append(q, [dat EXCEPT !.dests = ds])

have_route(rt, dsta) == dsta \in DOMAIN rt /\ rt[dsta].routers # <<>>

get_router(rv) == rv.routers[1].addr

\* routes[k]: operator[] inserts a default-constructed entry
route_at(rt, k) == IF k \in DOMAIN rt THEN rt[k] ELSE empty_route

route_put(rt, k, rv) == [a \in DOMAIN rt \cup {k} |-> IF a = k THEN rv ELSE rt[a]]

\* variant of send_zprn_msg: the peer named as confirmed is left out as well
send_zprn_msg_without_origin(q, rt, pd, rem, msg, confirmed) ==
  LET peers0 == IF msg.zprn_prio # 255 /\ msg.zprn_cmd = ZPRN_ROUTEMOD
                   /\ have_route(rt, msg.route)
                THEN rem_peer(rem, pd, get_router(rt[msg.route]))
                ELSE rem
      other(x) == x # confirmed
  IN  enqueue_zprn(q, pd, [zprn |-> msg, dests |-> SelectSeq(peers0, other),
                           confirmed |-> confirmed])

send_zprn_msg(q, rt, pd, rem, msg, confirmed) ==
  LET peers == IF msg.zprn_prio # 255 /\ msg.zprn_cmd = ZPRN_ROUTEMOD
                  /\ have_route(rt, msg.route)
               THEN rem_peer(rem, pd, get_router(rt[msg.route]))
               ELSE rem
  IN  enqueue_zprn(q, pd, [zprn |-> msg, dests |-> peers, confirmed |-> confirmed])

\* the routers of dest, and rem with each of them rem_peer'ed in list order
RECURSIVE rem_routers(_, _, _)
rem_routers(vec, pd, rs) ==
  IF rs = <<>> THEN vec
  ELSE rem_routers(rem_peer(vec, pd, Head(rs).addr), pd, Tail(rs))

send_zprn_probe_req(q, rt, pd, rem, dest) ==
  LET hr == have_route(rt, dest)
      rts == IF hr THEN rt[dest].routers ELSE <<>>
      routers == [i \in DOMAIN rts |-> rts[i].addr]
      non_routers == rem_routers(rem, pd, rts)
      q1 == IF hr
            THEN enqueue_zprn(q, pd,
                   [zprn |-> [zprn_cmd |-> ZPRN2_PROBE, zprn_prio |-> 254, route |-> dest],
                    dests |-> routers, confirmed |-> null_peer])
            ELSE q
  IN  IF non_routers # <<>>
      THEN enqueue_zprn(q1, pd,
             [zprn |-> [zprn_cmd |-> ZPRN2_PROBE, zprn_prio |-> 255, route |-> dest],
              dests |-> non_routers, confirmed |-> null_peer])
      ELSE q1

---------------------------------------------------------------------------
(* handlers for incoming ZPRN records; each yields [routes, zprn_msgs] *)

zprn_v2_routemod_handler(rt, q, pd, rem, srca, d, now) ==
  LET dsta == d.route
  IN  IF d.zprn_prio # 255
      THEN IF ~am_ii_addr(dsta, TRUE)
           THEN [routes |-> route_put(rt, dsta,
                              add_router(route_at(rt, dsta), pd, srca, d.zprn_prio + 1, now).rv),
                 zprn_msgs |-> q]
           ELSE [routes |-> rt, zprn_msgs |-> q]
      ELSE LET r == have_route(rt, dsta)
               rt1 == IF r THEN [rt EXCEPT ![dsta] = del_router(@, srca).rv] ELSE rt
           IN  IF am_ii_addr(dsta, FALSE)
               THEN [routes |-> rt1,
                     zprn_msgs |-> send_zprn_msg(q, rt1, pd, rem, [d EXCEPT !.zprn_prio = 0], srca)]
               ELSE IF r /\ rt1[dsta].routers # <<>>
                    THEN [routes |-> rt1,
                          zprn_msgs |-> send_zprn_msg(q, rt1, pd, rem,
                                          [d EXCEPT !.zprn_prio = rt1[dsta].routers[1].hops], srca)]
                    ELSE [routes |-> rt1, zprn_msgs |-> q]

\* variant of zprn_v2_connmgmt_handler: an open is honoured for every address
zprn_v2_connmgmt_handler_anydest(rt, q, pd, rem, srca, d, now) ==
  LET dsta == d.route
  IN  IF d.zprn_prio = ZPRN_CONNMGMT_OPEN
      THEN [routes |-> route_put(rt, dsta,
                         add_router(route_at(rt, dsta), pd, srca, 1, now).rv),
            zprn_msgs |-> q]
      ELSE LET rt1 == [a \in DOMAIN rt |-> del_router(rt[a], srca).rv]
           IN  [routes |-> IF have_route(rt1, dsta)
                           THEN [rt1 EXCEPT ![dsta].routers = <<>>]
                           ELSE rt1,
                zprn_msgs |-> q]

zprn_v2_connmgmt_handler(rt, q, pd, rem, srca, d, now) ==
  LET dsta == d.route
  IN  IF d.zprn_prio = ZPRN_CONNMGMT_OPEN
      THEN IF ~am_ii_addr(dsta, TRUE)
           THEN [routes |-> route_put(rt, dsta,
                              add_router(route_at(rt, dsta), pd, srca, 1, now).rv),
                 zprn_msgs |-> q]
           ELSE [routes |-> rt, zprn_msgs |-> q]
      ELSE LET rt1 == [a \in DOMAIN rt |-> del_router(rt[a], srca).rv]
           IN  [routes |-> IF have_route(rt1, dsta)
                           THEN [rt1 EXCEPT ![dsta].routers = <<>>]
                           ELSE rt1,
                zprn_msgs |-> q]

\* variant of zprn_handle_probe_req: no answer when the primary router of the
\* probed route is the requester
zprn_handle_probe_req_silent(rt, q, pd, srca, d, expected_to_hr) ==
  LET local == am_ii_addr(d.route, FALSE)
      hr == ~local /\ have_route(rt, d.route)
      prio == IF local THEN 0 ELSE IF hr THEN rt[d.route].routers[1].hops ELSE 0
      via_srca == hr /\ PeerEq(pd, get_router(rt[d.route]), srca)
      dwhr == local \/ (hr /\ prio # 255 /\ ~via_srca)
  IN  IF dwhr
      THEN enqueue_zprn(q, pd,
             [zprn |-> [zprn_cmd |-> ZPRN_ROUTEMOD, zprn_prio |-> prio, route |-> d.route],
              dests |-> <<srca>>, confirmed |-> srca])
      ELSE IF ~expected_to_hr \/ via_srca THEN q
      ELSE enqueue_zprn(q, pd,
             [zprn |-> [zprn_cmd |-> d.zprn_cmd, zprn_prio |-> 0, route |-> d.route],
              dests |-> <<srca>>, confirmed |-> srca])

zprn_handle_probe_req(rt, q, pd, srca, d, expected_to_hr) ==
  LET local == am_ii_addr(d.route, FALSE)
      hr == ~local /\ have_route(rt, d.route)
      prio == IF local THEN 0
              ELSE IF hr THEN rt[d.route].routers[1].hops
              ELSE d.zprn_prio
      dwhr == \/ local
              \/ hr /\ ~(prio = 255 \/ PeerEq(pd, get_router(rt[d.route]), srca))
  IN  IF dwhr
      THEN enqueue_zprn(q, pd,
             [zprn |-> [zprn_cmd |-> ZPRN_ROUTEMOD, zprn_prio |-> prio, route |-> d.route],
              dests |-> <<srca>>, confirmed |-> srca])
      ELSE IF ~expected_to_hr THEN q
      ELSE enqueue_zprn(q, pd,
             [zprn |-> [zprn_cmd |-> d.zprn_cmd, zprn_prio |-> 0, route |-> d.route],
              dests |-> <<srca>>, confirmed |-> srca])

\* variant of zprn_v2_probe_handler: every request is handled as one that
\* expects a route
zprn_v2_probe_handler_expecting(rt, q, pd, rem, srca, d, now) ==
  CASE d.zprn_prio = 0 ->
         [routes |-> IF have_route(rt, d.route)
                     THEN [rt EXCEPT ![d.route] = del_router(@, srca).rv]
                     ELSE rt,
          zprn_msgs |-> q]
    [] d.zprn_prio \in {254, 255} ->
         [routes |-> rt, zprn_msgs |-> zprn_handle_probe_req(rt, q, pd, srca, d, TRUE)]
    [] OTHER -> [routes |-> rt, zprn_msgs |-> q]

zprn_v2_probe_handler(rt, q, pd, rem, srca, d, now) ==
  CASE d.zprn_prio = 0 ->
         [routes |-> IF have_route(rt, d.route)
                     THEN [rt EXCEPT ![d.route] = del_router(@, srca).rv]
                     ELSE rt,
          zprn_msgs |-> q]
    [] d.zprn_prio = 255 ->
         [routes |-> rt, zprn_msgs |-> zprn_handle_probe_req(rt, q, pd, srca, d, FALSE)]
    [] d.zprn_prio = 254 ->
         [routes |-> rt, zprn_msgs |-> zprn_handle_probe_req(rt, q, pd, srca, d, TRUE)]
    [] OTHER -> [routes |-> rt, zprn_msgs |-> q]

\* the dispatch loop of handle_zprn_v2_pkt over the records of one datagram
RECURSIVE handle_zprn_v2_pkt(_, _, _, _, _, _, _)
handle_zprn_v2_pkt(rt, q, pd, rem, srca, recs, now) ==
  IF recs = <<>> THEN [routes |-> rt, zprn_msgs |-> q]
  ELSE LET d == Head(recs)
           r == CASE d.zprn_cmd = ZPRN_ROUTEMOD ->
                       zprn_v2_routemod_handler(rt, q, pd, rem, srca, d, now)
                  [] d.zprn_cmd = ZPRN_CONNMGMT ->
                       zprn_v2_connmgmt_handler(rt, q, pd, rem, srca, d, now)
                  [] d.zprn_cmd = ZPRN2_PROBE ->
                       zprn_v2_probe_handler(rt, q, pd, rem, srca, d, now)
                  [] OTHER -> [routes |-> rt, zprn_msgs |-> q]
       IN  handle_zprn_v2_pkt(r.routes, r.zprn_msgs, pd, rem, srca, Tail(recs), now)

---------------------------------------------------------------------------
(* ping_cache_t *)

empty_ping == [valid |-> FALSE, src |-> 0, dst |-> 0, id |-> 0, seq |-> 0,
               router |-> null_peer]

ping_init(dat, router) ==
  [valid |-> TRUE, src |-> dat.src, dst |-> dat.dst, id |-> dat.id, seq |-> dat.seq,
   router |-> router]

\* variant: a match leaves the slot as it is
ping_match_keep(pc, dat, router, ttl, rtt) ==
  IF pc.valid /\ dat.src = pc.dst /\ dat.dst = pc.src /\ dat.id = pc.id /\ dat.seq = pc.seq
  THEN [match |-> TRUE, router |-> router, hops |-> (MAXTTL - ttl + 1) % 256,
        diff |-> rtt, pc |-> pc]
  ELSE [match |-> FALSE, router |-> router, hops |-> 0, diff |-> 0, pc |-> pc]

\* [match, router, hops, diff, pc] : pc is the slot after the call
ping_match(pc, dat, router, ttl, rtt) ==
  IF pc.valid /\ dat.src = pc.dst /\ dat.dst = pc.src /\ dat.id = pc.id /\ dat.seq = pc.seq
  THEN [match |-> TRUE, router |-> router, hops |-> (MAXTTL - ttl + 1) % 256,
        diff |-> rtt, pc |-> empty_ping]
  ELSE [match |-> FALSE, router |-> router, hops |-> 0, diff |-> 0, pc |-> pc]

---------------------------------------------------------------------------
(* ingress pipeline *)

\* swap the first two routers when they are near; coin is the rand() outcome
swap_near_routers(rv, coin) ==
  LET rs == rv.routers
  IN  IF Len(rs) >= 2 /\ coin /\ rs[1].hops = rs[2].hops
         /\ rs[1].latency - rs[2].latency <= max_near_rtt
         /\ rs[2].latency - rs[1].latency <= max_near_rtt
      THEN [rv EXCEPT !.routers = <<rs[2], rs[1]>> \o SubSeq(rs, 3, Len(rs))]
      ELSE rv

IcmpKinds == {"icmp_short", "echo", "echoreply", "info", "err_rm", "err_rm_short", "err"}
is_icmp(pkt) == pkt.kind \in IcmpKinds

\* variant: no ICMP type counts as an error message
no_icmp_errmsg(pkt) == FALSE

is_icmp_errmsg(pkt) == pkt.kind \in {"err_rm", "err_rm_short", "err"}

\* variant of verify_ip_packet: the looped-source test is left out
verify_without_loop_test(pd, srca, pkt) ==
  /\ ~(pkt.ver = 4 /\ is_local(pd, srca) /\ ~pkt.csum_ok)
  /\ pkt.shape # "trunc"

\* verify_ipv4_packet / verify_ipv6_packet
verify_ip_packet(pd, srca, pkt) ==
  /\ ~(pkt.ver = 4 /\ is_local(pd, srca) /\ ~pkt.csum_ok)
  /\ pkt.shape # "trunc"
  /\ ~(~is_local(pd, srca) /\ am_ii_addr(pkt.src, TRUE))

\* send_icmp_msg / send_icmp6_msg: the frame handed to sender.enqueue
local_addr_of(at) ==
  LET hit == {i \in DOMAIN locals : AddrType(locals[i]) = at}
  IN  IF hit = {} THEN 0 ELSE locals[CHOOSE i \in hit : \A j \in hit : i <= j]

icmp_frame(msg, orig, source_ip) ==
  [buf |-> [ver |-> orig.ver, kind |-> msg,
            src |-> local_addr_of(IF orig.ver = 4 THEN IAFA_AT_INET ELSE IAFA_AT_INET6),
            dst |-> orig.src, ttl |-> MAXTTL, emb |-> orig.dst,
            id |-> 0, seq |-> 0, csum_ok |-> TRUE, shape |-> "ok",
            df |-> FALSE, tos |-> 0],
   dests |-> <<source_ip>>,
   frag |-> orig.ver = 6,
   tos |-> 0]

\* netmask of the local interface address of a family (xner_addr_t::nmsk)
local_nmsk(at) == IF at = IAFA_AT_INET THEN <<255, 255, 255, 0>> ELSE <<255, 0>>

\* xner_apply_netmask: bytewise and; the masks used are 255 or 0 per byte
xner_apply_netmask(b, nmsk) == [i \in DOMAIN b |-> IF nmsk[i] = 255 THEN b[i] ELSE 0]

\* !memcmp(aptr->addr, tmp, sizeof(tmp)) with tmp the masked destination
in_local_subnet(dst) ==
  LET at == AddrType(dst)
      la == local_addr_of(at)
  IN  la # 0 /\ AddrBytes(la) = xner_apply_netmask(AddrBytes(dst), local_nmsk(at))

\* variant of learned_hops: exported addresses count as own addresses too
learned_hops_exported(iaddr_src, ip_ttl) ==
  IF am_ii_addr(iaddr_src, TRUE) THEN 0 ELSE (MAXTTL - ip_ttl) % 256

\* the hop count resolve_route hands to add_router
learned_hops(iaddr_src, ip_ttl) ==
  IF am_ii_addr(iaddr_src, FALSE) THEN 0 ELSE (MAXTTL - ip_ttl) % 256

\* resolve_route, last part: no usable route, the packet goes nowhere (blocked
\* broadcast destination) or to every registered peer but the source
resolve_route_flood(rt2, pd, rem, source_peer, iaddr_dest) ==
  IF iaddr_dest \in blocked_broadcast_dsts
  THEN [routes |-> rt2, ret |-> <<>>]
  ELSE [routes |-> rt2, ret |-> rem_peer(rem, pd, source_peer)]

\* resolve_route: the entry `r1` after r->del_router(source_peer), then
\* del_primary_router() when the primary compares equal to the source
resolve_route_invalid(r1, pd, source_peer) ==
  IF r1.routers # <<>> /\ PeerEq(pd, source_peer, get_router(r1))
  THEN del_primary_router(r1)
  ELSE r1

\* resolve_route: the entry `r2` of the destination after the deletions
resolve_route_have(rt1, r2, pd, rem, source_peer, iaddr_dest, coin) ==
  IF r2.routers # <<>>
  THEN [routes |-> [rt1 EXCEPT ![iaddr_dest] =
                      IF max_near_rtt # 0 THEN swap_near_routers(r2, coin) ELSE r2],
        ret |-> <<get_router(IF max_near_rtt # 0 THEN swap_near_routers(r2, coin) ELSE r2)>>]
  ELSE resolve_route_flood([rt1 EXCEPT ![iaddr_dest] = r2], pd, rem, source_peer, iaddr_dest)

\* resolve_route after the source route is learned into `rt1`
resolve_route_dest(rt1, pd, rem, source_peer, iaddr_dest, destination_is_local, coin) ==
  IF destination_is_local
     \/ (~is_local(pd, source_peer) /\ is_direct_broadcast(iaddr_dest))
  THEN [routes |-> rt1, ret |-> <<anon_local>>]
  ELSE IF have_route(rt1, iaddr_dest)
       THEN resolve_route_have(rt1,
              resolve_route_invalid(del_router(rt1[iaddr_dest], source_peer).rv,
                                    pd, source_peer),
              pd, rem, source_peer, iaddr_dest, coin)
       ELSE resolve_route_flood(rt1, pd, rem, source_peer, iaddr_dest)

\* resolve_route: [routes, ret]
resolve_route(rt, pd, rem, source_peer, iaddr_src, iaddr_dest, ip_ttl, destination_is_local, coin, now) ==
  resolve_route_dest(
    route_put(rt, iaddr_src,
      add_router(route_at(rt, iaddr_src), pd, source_peer,
                 learned_hops(iaddr_src, ip_ttl), now).rv),
    pd, rem, source_peer, iaddr_dest, destination_is_local, coin)

\* the multicast test of route_packet / route6_packet
dst_is_multicast(le, pkt) ==
  IF pkt.ver = 4 THEN is_multicast4(le, pkt.dst) ELSE is_multicast6(pkt.dst)

\* variant of rm_route: no ICMP error demotes a route
rm_route_never(pkt) == FALSE

\* rm_route of route_packet / route6_packet together with the size test for
\* the embedded header: time-exceeded in transit, host- or net-unreachable
\* (ICMPv6 type 1 or 3) with a whole original header behind it
rm_route(pkt) == pkt.kind = "err_rm"

\* route_packet / route6_packet after resolve_route: rt1 and ret are its
\* outcome, out is the packet with the ttl written back
route_packet_send(rt1, ret, pc, q, pd, source_peer, pkt, out, rtt, now) ==
  LET frame == [buf |-> out, dests |-> ret,
                frag |-> IF pkt.ver = 4 THEN pkt.df ELSE TRUE, tos |-> pkt.tos]
  IN  IF ret = <<>>
      THEN IF is_icmp_errmsg(pkt)
           THEN [routes |-> rt1, ping_cache |-> pc, tasks |-> q]
           ELSE [routes |-> IF have_route(rt1, pkt.dst)
                            THEN [rt1 EXCEPT ![pkt.dst] = del_primary_router(@)]
                            ELSE rt1,
                 ping_cache |-> pc,
                 tasks |-> IF local_addr_of(AddrType(pkt.dst)) # 0
                           THEN enqueue_data(q, pd,
                                  icmp_frame(IF in_local_subnet(pkt.dst)
                                             THEN "unreach_host" ELSE "unreach_net",
                                             out, source_peer))
                           ELSE q]
      ELSE IF rm_route(pkt) /\ have_route(rt1, pkt.emb)
      THEN [routes |-> [rt1 EXCEPT ![pkt.emb] = del_router(@, source_peer).rv],
            ping_cache |-> pc,
            tasks |-> IF del_router(rt1[pkt.emb], source_peer).rv.routers # <<>>
                      THEN q
                      ELSE enqueue_data(q, pd, frame)]
      ELSE IF pkt.kind = "echo" /\ Len(ret) = 1
      THEN [routes |-> rt1,
            ping_cache |-> ping_init([src |-> pkt.src, dst |-> pkt.dst,
                                      id |-> pkt.id, seq |-> pkt.seq], ret[1]),
            tasks |-> enqueue_data(q, pd, frame)]
      ELSE IF pkt.kind = "echoreply" /\ Len(ret) = 1
      THEN LET m == ping_match(pc, [src |-> pkt.src, dst |-> pkt.dst,
                                    id |-> pkt.id, seq |-> pkt.seq],
                               source_peer, out.ttl, rtt)
           IN  [routes |-> IF m.match /\ have_route(rt1, pkt.src)
                           THEN [rt1 EXCEPT ![pkt.src] =
                                   update_router(@, pd, m.router, m.hops, m.diff, now)]
                           ELSE rt1,
                ping_cache |-> m.pc,
                tasks |-> enqueue_data(q, pd, frame)]
      ELSE [routes |-> rt1, ping_cache |-> pc, tasks |-> enqueue_data(q, pd, frame)]

\* route_packet / route6_packet once the ttl test is passed: rr is what
\* resolve_route returned for the packet `out`
route_packet_resolved(rr, pc, q, pd, source_peer, pkt, out, rtt, now) ==
  route_packet_send(rr.routes, rr.ret, pc, q, pd, source_peer, pkt, out, rtt, now)

\* route_packet / route6_packet with the ttl to write back
route_packet_ttl(rt, pc, q, pd, rem, source_peer, pkt, ttl, destination_is_local, coin, rtt, now) ==
  route_packet_resolved(
    resolve_route(rt, pd, rem, source_peer, pkt.src, pkt.dst, ttl,
                  destination_is_local, coin, now),
    pc, q, pd, source_peer, pkt, [pkt EXCEPT !.ttl = ttl], rtt, now)

\* route_packet / route6_packet past the size test; iam_ep: the node is an
\* endpoint of the packet
route_packet_ep(rt, pc, q, pd, rem, source_peer, pkt, iam_ep, le, coin, rtt, now) ==
  IF dst_is_multicast(le, pkt) THEN [routes |-> rt, ping_cache |-> pc, tasks |-> q]
  ELSE IF pkt.ttl = 0 \/ (~iam_ep /\ pkt.ttl = 1)
  THEN IF ~is_icmp_errmsg(pkt)
       THEN [routes |-> rt, ping_cache |-> pc,
             tasks |-> enqueue_data(q, pd, icmp_frame("ttl_exceeded", pkt, source_peer))]
       ELSE [routes |-> rt, ping_cache |-> pc, tasks |-> q]
  ELSE route_packet_ttl(rt, pc, q, pd, rem, source_peer, pkt,
                        IF ~iam_ep THEN pkt.ttl - 1 ELSE pkt.ttl,
                        ~is_local(pd, source_peer) /\ iam_ep, coin, rtt, now)

\* route_packet / route6_packet: [routes, ping_cache, tasks]
route_packet(rt, pc, q, pd, rem, source_peer, pkt, le, coin, rtt, now) ==
  IF pkt.kind = "icmp_short" THEN [routes |-> rt, ping_cache |-> pc, tasks |-> q]
  ELSE route_packet_ep(rt, pc, q, pd, rem, source_peer, pkt,
                       is_local(pd, source_peer) \/ am_ii_addr(pkt.dst, TRUE),
                       le, coin, rtt, now)

\* route_genip_packet for an IP payload, after srca->seen = last_time
route_genip_packet(rt, pc, q, pd, rem, srca, pkt, le, coin, rtt, now) ==
  IF pkt.ver \in {4, 6} /\ pkt.shape # "short" /\ verify_ip_packet(pd, srca, pkt)
  THEN route_packet(rt, pc, q, pd, rem, srca, pkt, le, coin, rtt, now)
  ELSE [routes |-> rt, ping_cache |-> pc, tasks |-> q]

---------------------------------------------------------------------------
(* configuration and inputs *)

SockAddrs == 1 .. 3

\* what resolve_hostname yields for each 'R' statement of the configuration in
\* turn, 0: no address
StartupResolutions == {<<1, 2>>, <<2, 1>>, <<0, 2>>}
TickResolutions == {<<0, 0>>, <<1, 2>>, <<3, 2>>}

ZprnRecs ==
  [zprn_cmd : {ZPRN_ROUTEMOD, ZPRN_CONNMGMT, ZPRN2_PROBE},
   zprn_prio : {0, 254, 255},
   route : {1, 2}]

\* inner packets: family and version agree
Packet(ver, src, dst, ttl, kind) ==
  [ver |-> ver, src |-> src, dst |-> dst, ttl |-> ttl, kind |-> kind,
   emb |-> 2, id |-> 7, seq |-> 1, csum_ok |-> TRUE, shape |-> "ok",
   df |-> FALSE, tos |-> 0]

V4Packets(srcs, dsts, ttls, kinds) ==
  {Packet(4, s, d, t, k) : s \in srcs, d \in dsts, t \in ttls, k \in kinds}

V6Packets(srcs, dsts, ttls) ==
  {Packet(6, s, d, t, "data") : s \in srcs, d \in dsts, t \in ttls}

\* what arrives in UDP datagrams and what the tun device delivers
UdpPackets ==
  V4Packets({1, 2, 4}, {1, 3, 7}, {0, 1, 2}, {"data", "err"})
    \cup V6Packets({21, 22}, {23}, {0})
    \cup {Packet(4, 2, 5, 2, "data"), Packet(4, 2, 3, 0, "icmp_short"),
          Packet(4, 2, 3, 2, "icmp_short")}
TunPackets ==
  V4Packets({1, 4}, {3, 7}, {0, 1}, {"data", "err"})
    \cup V6Packets({21}, {22}, {0, 2})

IpPackets == UdpPackets \cup TunPackets

LatencySet == {12}

---------------------------------------------------------------------------
(* state after init_all() and the start of main() *)

new_peer(sa, now, cent) == [saddr |-> sa, seen |-> now, cent |-> cent, to_discard |-> FALSE]

\* connect2server for the config entries i..NConf in order: the heap after it
RECURSIVE connect_all(_, _, _, _)
connect_all(pd, res, i, now) ==
  IF i > Len(res) THEN pd
  ELSE connect_all(IF res[i] = 0 THEN pd ELSE Append(pd, new_peer(res[i], now, i)),
                   res, i + 1, now)

connmgmt_msg(prio) ==
  [zprn_cmd |-> ZPRN_CONNMGMT, zprn_prio |-> prio,
   route |-> IF locals # <<>> THEN locals[1] ELSE 0]

local_routes ==
  [a \in RangeOf(locals) |-> add_router(empty_route, <<>>, local_router, 0, 0).rv]

no_log == <<>>

InitWith(resolutions) ==
  /\ host_le \in BOOLEAN
  /\ \E res \in resolutions :
       /\ found_remotes = [i \in DOMAIN res |-> FALSE]
       /\ pdat = connect_all(<<>>, res, 1, 0)
       /\ remotes = [i \in 1 .. Len(pdat) |-> i]
       /\ zprn_msgs = send_zprn_msg(<<>>, <<>>, pdat, remotes,
                                    connmgmt_msg(ZPRN_CONNMGMT_OPEN), null_peer)
  /\ routes = local_routes
  /\ ping_cache = empty_ping
  /\ last_time = 0
  /\ pastt_clu = 0
  /\ tasks = <<>>
  /\ ev = [op |-> "init", peer |-> null_peer, arg |-> 0, log |-> no_log]
  /\ probed = {}
  /\ sender_start

Init == InitWith(StartupResolutions)

---------------------------------------------------------------------------
(* main loop: one epoll event *)

QueueRoom == Len(tasks) + Len(zprn_msgs) < MaxQueue

\* main(): lower_bound over remotes for the datagram's source address, insert
\* on a miss; [pd, rem, peer]
lookup_or_insert(pd, rem, sa, now) ==
  LET it == lower_bound(rem, pd, sa)
  IN  IF it = Len(rem) + 1 \/ SA(pd, rem[it]) # sa
      THEN [pd |-> Append(pd, new_peer(sa, now, 0)),
            rem |-> InsertAt(rem, it, Len(pd) + 1),
            peer |-> Len(pd) + 1]
      ELSE [pd |-> [pd EXCEPT ![rem[it]].seen = now], rem |-> rem, peer |-> rem[it]]

\* a ZPRN datagram from socket address sa
RecvZprn(sa, recs) ==
  /\ QueueRoom
  /\ LET l == lookup_or_insert(pdat, remotes, sa, last_time)
         r == handle_zprn_v2_pkt(routes, zprn_msgs, l.pd, l.rem, l.peer, recs, last_time)
     IN  /\ Len(l.pd) <= MaxPeers
         /\ pdat' = l.pd
         /\ remotes' = l.rem
         /\ routes' = r.routes
         /\ zprn_msgs' = r.zprn_msgs
         /\ ev' = [op |-> "zprn", peer |-> l.peer, arg |-> recs, log |-> no_log]
  /\ UNCHANGED <<ping_cache, last_time, pastt_clu, found_remotes, tasks, host_le, probed, sender_vars>>

\* an IP datagram from socket address sa
RecvUdp(sa, pkt, coin, rtt) ==
  /\ QueueRoom
  /\ LET l == lookup_or_insert(pdat, remotes, sa, last_time)
         r == route_genip_packet(routes, ping_cache, tasks, l.pd, l.rem, l.peer, pkt,
                                 host_le, coin, rtt, last_time)
     IN  /\ Len(l.pd) <= MaxPeers
         /\ pdat' = l.pd
         /\ remotes' = l.rem
         /\ routes' = r.routes
         /\ ping_cache' = r.ping_cache
         /\ tasks' = r.tasks
         /\ ev' = [op |-> "udp", peer |-> l.peer, arg |-> pkt, log |-> no_log]
  /\ UNCHANGED <<last_time, pastt_clu, found_remotes, zprn_msgs, host_le, probed, sender_vars>>

\* an IP packet read from the tun device
RecvTun(pkt, coin, rtt) ==
  /\ QueueRoom
  /\ LET r == route_genip_packet(routes, ping_cache, tasks, pdat, remotes, local_router,
                                 pkt, host_le, coin, rtt, last_time)
     IN  /\ routes' = r.routes
         /\ ping_cache' = r.ping_cache
         /\ tasks' = r.tasks
         /\ ev' = [op |-> "tun", peer |-> local_router, arg |-> pkt, log |-> no_log]
  /\ UNCHANGED <<pdat, remotes, last_time, pastt_clu, found_remotes, zprn_msgs, host_le, probed, sender_vars>>

\* sender_t::worker_fn takes over both queues
SenderTake ==
  /\ tasks # <<>> \/ zprn_msgs # <<>>
  /\ tasks' = <<>>
  /\ zprn_msgs' = <<>>
  /\ ev' = [op |-> "send", peer |-> null_peer, arg |-> 0, log |-> no_log]
  /\ UNCHANGED <<pdat, remotes, routes, ping_cache, last_time, pastt_clu,
                 found_remotes, host_le, probed, sender_vars>>

---------------------------------------------------------------------------
(* main loop: time update and the cleanup pass *)

\* longest epoll_wait in seconds: epmax_timeout = 1500 * remote_timeout ms
MaxWait == (1500 * remote_timeout) \div 1000

RECURSIVE SeqCount(_, _)
SeqCount(s, x) ==
  IF s = <<>> THEN 0 ELSE (IF Head(s) = x THEN 1 ELSE 0) + SeqCount(Tail(s), x)

\* keys of the routing table in the order the pass visits them
RECURSIVE SetToSeq(_)
SetToSeq(S) ==
  IF S = {} THEN <<>>
  ELSE LET m == CHOOSE x \in S : \A y \in S : x <= y IN <<m>> \o SetToSeq(S \ {m})

RECURSIVE SeqSum(_)
SeqSum(s) == IF s = <<>> THEN 0 ELSE Head(s) + SeqSum(Tail(s))

\* shared_ptr::use_count() of a registered peer: the registry, the ViaRouters,
\* the ping cache and the frames still queued hold references
use_count(p, rt, pc, tq, zq) ==
  LET keys == SetToSeq(DOMAIN rt)
      in_route(a) == SeqCount([i \in DOMAIN rt[a].routers |-> rt[a].routers[i].addr], p)
      in_zprn(z) == SeqCount(z.dests, p) + (IF z.confirmed = p THEN 1 ELSE 0)
  IN  1 + SeqSum([i \in DOMAIN keys |-> in_route(keys[i])])
        + (IF pc.router = p THEN 1 ELSE 0)
        + SeqSum([i \in DOMAIN tq |-> SeqCount(tq[i].dests, p)])
        + SeqSum([i \in DOMAIN zq |-> in_zprn(zq[i])])

\* the duplicate scan for remotes[i] over remotes[k..]: the heap after it
RECURSIVE mark_duplicates(_, _, _, _, _)
mark_duplicates(pd, rem, i, k, uc) ==
  IF k > Len(rem) THEN pd
  ELSE LET p == rem[i]
           op == rem[k]
       IN  IF pd[op].to_discard \/ SA(pd, p) # SA(pd, op)
           THEN mark_duplicates(pd, rem, i, k + 1, uc)
           ELSE LET victim == IF (pd[p].cent = 0 /\ pd[op].cent # 0) \/ uc[p] < uc[op]
                              THEN p ELSE op
                IN  mark_duplicates([pd EXCEPT ![victim].to_discard = TRUE],
                                    rem, i, k + 1, uc)

\* variant of discard_peer_routes: the routes of a discarded peer are kept
discard_peer_routes_none(rt, p) == rt

\* for(auto &r: routes) r.second.del_router(i) for a peer that is discarded
discard_peer_routes(rt, p) == [a \in DOMAIN rt |-> del_router(rt[a], p).rv]

\* what del_route_msg reports in the loop over remotes: one line per entry that
\* held a router of a discarded peer, in the order of the registry
RECURSIVE del_route_msgs(_, _, _)
del_route_msgs(rt, pd, rem) ==
  IF rem = <<>> THEN <<>>
  ELSE LET p == Head(rem)
           keys == SetToSeq({k \in DOMAIN rt : del_router(rt[k], p).ret})
           lines == [j \in DOMAIN keys |->
                       [what |-> "discarded", dest |-> keys[j], router |-> p,
                        primary |-> rt[keys[j]].routers[1].addr = p]]
       IN  (IF pd[p].to_discard THEN lines ELSE <<>>) \o del_route_msgs(rt, pd, Tail(rem))

\* variant of not_timed_out: a peer seen exactly remote_timeout ago passes
not_timed_out_inclusive(seen, now) == (now - remote_timeout) <= seen

\* (last_time - zprd_conf.remote_timeout) < pdat.seen
not_timed_out(seen, now) == (now - remote_timeout) < seen

\* the loop over remotes of the cleanup pass: [pd, rt, fr]
RECURSIVE peer_pass(_, _, _, _, _, _, _, _, _, _)
peer_pass(pd, rt, fr, rem, i, res, pc, tq, zq, now) ==
  IF i > Len(rem) THEN [pd |-> pd, rt |-> rt, fr |-> fr]
  ELSE LET p == rem[i]
           fr1 == IF pd[p].cent # 0 THEN [fr EXCEPT ![pd[p].cent] = TRUE] ELSE fr
           alive == not_timed_out(pd[p].seen, now)
           updated == ~alive /\ pd[p].cent # 0 /\ res[pd[p].cent] # 0
           pd1 == IF updated
                  THEN [pd EXCEPT ![p].seen = now, ![p].saddr = res[pd[p].cent]]
                  ELSE pd
           uc == [x \in RangeOf(rem) |-> use_count(x, rt, pc, tq, zq)]
           pd2 == IF alive \/ updated
                  THEN mark_duplicates(pd1, rem, i, i + 1, uc)
                  ELSE pd1
       IN  IF (alive \/ updated) /\ ~pd2[p].to_discard
           THEN peer_pass(pd2, rt, fr1, rem, i + 1, res, pc, tq, zq, now)
           ELSE peer_pass([pd2 EXCEPT ![p].to_discard = TRUE],
                          discard_peer_routes(rt, p),
                          fr1, rem, i + 1, res, pc, tq, zq, now)

\* the map_remove_if lambda over the routing table: [rt, q, log]
RECURSIVE route_pass(_, _, _, _, _, _, _)
route_pass(rt, q, log, keys, pd, rem, now) ==
  IF keys = <<>> THEN [rt |-> rt, q |-> q, log |-> log]
  ELSE LET k == Head(keys)
           c == cleanup(rt[k], now)
           ise == c.rv
           iee == ise.routers = <<>>
           outdated == [j \in DOMAIN c.dropped |->
                          [what |-> "outdated", dest |-> k, router |-> c.dropped[j].addr,
                           primary |-> c.dropped[j] = rt[k].routers[1]]]
           rt1 == [rt EXCEPT ![k] = [ise EXCEPT !.fresh_add =
                                        IF iee \/ ise.fresh_add THEN FALSE ELSE @]]
           msg == [zprn_cmd |-> ZPRN_ROUTEMOD,
                   zprn_prio |-> IF iee THEN 255 ELSE ise.routers[1].hops,
                   route |-> k]
           announce == iee \/ ise.fresh_add
           probe == ~announce /\ ise.routers[1].seen < now - remote_timeout
           q1 == IF announce
                 THEN send_zprn_msg(q, rt1, pd, rem, msg,
                                    IF iee THEN null_peer ELSE get_router(ise))
                 ELSE IF probe THEN send_zprn_probe_req(q, rt1, pd, rem, k)
                 ELSE q
           log1 == log \o outdated \o
                   (IF announce THEN <<[what |-> "routemod", dest |-> k, router |-> null_peer,
                                        primary |-> FALSE]>>
                    ELSE IF probe THEN <<[what |-> "probe", dest |-> k,
                                          router |-> get_router(ise), primary |-> TRUE]>>
                    ELSE <<>>)
           rt2 == IF iee THEN [a \in DOMAIN rt1 \ {k} |-> rt1[a]] ELSE rt1
       IN  route_pass(rt2, q1, log1, Tail(keys), pd, rem, now)

\* connect2server for every config entry not yet found: the heap after it
RECURSIVE reconnect(_, _, _, _, _)
reconnect(pd, fr, res, i, now) ==
  IF i > Len(fr) THEN pd
  ELSE reconnect(IF ~fr[i] /\ res[i] # 0 THEN Append(pd, new_peer(res[i], now, i)) ELSE pd,
                 fr, res, i + 1, now)

IsSortedBy(vec, pd) == \A i, j \in DOMAIN vec : i < j => ~x_less(pd, vec[j], vec[i])

\* the outcomes std::sort(remotes, x_less) can have: equal elements in any order
SortOutcomes(vec, pd) ==
  {s \in [DOMAIN vec -> RangeOf(vec)] :
     /\ \A x \in RangeOf(vec) : SeqCount(s, x) = SeqCount(vec, x)
     /\ IsSortedBy(s, pd)}

\* one pass of the main loop in which time() has advanced by dt
TimeStep(dt, res) ==
  /\ QueueRoom
  /\ last_time + dt <= MaxTime
  /\ last_time' = last_time + dt
  /\ IF (last_time' - remote_timeout \div 4) <= pastt_clu
     THEN /\ ev' = [op |-> "wait", peer |-> null_peer, arg |-> dt, log |-> no_log]
          /\ UNCHANGED <<pdat, remotes, routes, ping_cache, pastt_clu, found_remotes,
                         tasks, zprn_msgs, host_le, probed, sender_vars>>
     ELSE \E pp \in {peer_pass(pdat, routes, found_remotes, remotes, 1, res,
                               ping_cache, tasks, zprn_msgs, last_time')} :
          \E rp \in {route_pass(pp.rt, zprn_msgs, del_route_msgs(routes, pp.pd, remotes),
                                SetToSeq(DOMAIN pp.rt),
                                pp.pd, remotes, last_time')} :
          \E pd1 \in {reconnect(pp.pd, pp.fr, res, 1, last_time')} :
            LET kept(x) == ~pp.pd[x].to_discard
                rem1 == SelectSeq(remotes, kept)
                rem2 == rem1 \o [i \in 1 .. (Len(pd1) - Len(pp.pd)) |-> Len(pp.pd) + i]
            IN
              /\ Len(pd1) <= MaxPeers
              /\ pdat' = pd1
              /\ routes' = rp.rt
              /\ zprn_msgs' = rp.q
              /\ found_remotes' = pp.fr
              /\ remotes' \in SortOutcomes(rem2, pd1)
              /\ pastt_clu' = last_time'
              /\ ev' = [op |-> "tick", peer |-> null_peer, arg |-> dt, log |-> rp.log]
              /\ probed' = probed \cup {<<rp.log[j].dest, rp.log[j].router>> :
                                          j \in {n \in DOMAIN rp.log : rp.log[n].what = "probe"}}
              /\ UNCHANGED <<ping_cache, tasks, host_le, sender_vars>>

---------------------------------------------------------------------------

Next ==
  \/ \E sa \in SockAddrs, d \in ZprnRecs : RecvZprn(sa, <<d>>)
  \/ \E sa \in SockAddrs, pkt \in UdpPackets, coin \in BOOLEAN, rtt \in LatencySet :
       RecvUdp(sa, pkt, coin, rtt)
  \/ \E pkt \in TunPackets, coin \in BOOLEAN, rtt \in LatencySet : RecvTun(pkt, coin, rtt)
  \/ SenderTake
  \/ \E dt \in 1 .. MaxWait, res \in TickResolutions : TimeStep(dt, res)

Spec == Init /\ [][Next]_vars

---------------------------------------------------------------------------
(* the ingress pipeline alone: both remotes resolved at startup, no time passes *)

InitIngress == InitWith({<<1, 2>>})

NextIngress ==
  \/ \E pkt \in UdpPackets : RecvUdp(1, pkt, FALSE, 12)
  \/ \E pkt \in TunPackets : RecvTun(pkt, FALSE, 12)
  \/ SenderTake

SpecIngress == InitIngress /\ [][NextIngress]_vars

\* the packet of the step passed verify_ipv4_packet / verify_ipv6_packet
StepVerified ==
  /\ ev'.op \in {"udp", "tun"}
  /\ ev'.arg.shape = "ok"
  /\ (ev'.op = "tun" /\ ev'.arg.ver = 4) => ev'.arg.csum_ok
  /\ ev'.op = "udp" => ~am_ii_addr(ev'.arg.src, TRUE)

\* its ttl is 0, or 1 while the node is no endpoint for it
StepTtlLow ==
  \/ ev'.arg.ttl = 0
  \/ ev'.arg.ttl = 1 /\ ev'.op = "udp" /\ ~am_ii_addr(ev'.arg.dst, TRUE)

\* it is neither a too-short ICMP packet nor has a multicast destination
StepPastMulticast ==
  /\ ev'.arg.kind # "icmp_short"
  /\ ~dst_is_multicast(host_le, ev'.arg)

\* nothing forwarded, no route learned, and one time-exceeded for the inner
\* source toward the peer the packet came from, none for an ICMP error message
StepTtlDrop ==
  /\ routes' = routes
  /\ ping_cache' = ping_cache
  /\ IF ev'.arg.kind \in {"err_rm", "err_rm_short", "err"}
     THEN tasks' = tasks
     ELSE /\ Len(tasks') = Len(tasks) + 1
          /\ SubSeq(tasks', 1, Len(tasks)) = tasks
          /\ LET f == tasks'[Len(tasks')]
             IN  /\ f.buf.kind = "ttl_exceeded"
                 /\ f.buf.dst = ev'.arg.src
                 /\ f.dests = IF ev'.op = "tun" THEN <<>> ELSE <<ev'.peer>>

\* C1: a packet from a non-local peer whose inner source is one of the node's
\* local or exported addresses is dropped: nothing is enqueued to the sender,
\* no ICMP is emitted and no routing entry changes.
C1_LoopProtection ==
  [][(ev'.op = "udp" /\ am_ii_addr(ev'.arg.src, TRUE))
       => (routes' = routes /\ tasks' = tasks /\ zprn_msgs' = zprn_msgs)]_vars

C1_Witness ==
  /\ ev.op = "udp"
  /\ ev.arg.src \in exported_locals
  /\ ~is_local(pdat, ev.peer)
  /\ routes = local_routes /\ tasks = <<>>

C3_RouteLearning ==
  [][(StepVerified /\ ~StepTtlLow /\ StepPastMulticast) =>
       LET pkt == ev'.arg
           transit == ev'.op = "udp" /\ ~am_ii_addr(pkt.dst, TRUE)
           ttl == IF transit THEN pkt.ttl - 1 ELSE pkt.ttl
           hops == IF pkt.src \in RangeOf(locals) THEN 0 ELSE MAXTTL - ttl
           learned == add_router(route_at(routes, pkt.src), pdat', ev'.peer, hops,
                                 last_time).rv
       IN  (pkt.dst # pkt.src /\ ~(pkt.kind = "err_rm" /\ pkt.emb = pkt.src)
              /\ pkt.kind # "echoreply")
             => (pkt.src \in DOMAIN routes' /\ routes'[pkt.src] = learned)]_vars

\* a route learned from a packet whose destination resolves to nobody
C3_Witness ==
  /\ ev.op = "udp" /\ ev.arg.dst \in blocked_broadcast_dsts /\ ev.arg.ttl = 2
  /\ have_route(routes, ev.arg.src)
  /\ routes[ev.arg.src].routers[1] = via_router_t(ev.peer, MAXTTL - 1, last_time)
  /\ Len(tasks) = 1 /\ tasks[1].buf.kind \in {"unreach_host", "unreach_net"}

---------------------------------------------------------------------------
(* the ZPRN handlers alone: both remotes resolved at startup, in either     *)
(* order of their socket addresses; no time passes                         *)

Rec(cmd, prio, route) == [zprn_cmd |-> cmd, zprn_prio |-> prio, route |-> route]

HandlerRecs ==
  {Rec(ZPRN_ROUTEMOD, 0, 3), Rec(ZPRN_ROUTEMOD, 254, 3), Rec(ZPRN_ROUTEMOD, 255, 3),
   Rec(ZPRN_ROUTEMOD, 255, 1), Rec(ZPRN_ROUTEMOD, 3, 4), Rec(ZPRN_ROUTEMOD, 255, 4),
   Rec(ZPRN_CONNMGMT, ZPRN_CONNMGMT_OPEN, 2), Rec(ZPRN_CONNMGMT, ZPRN_CONNMGMT_CLOSE, 2),
   Rec(ZPRN_CONNMGMT, ZPRN_CONNMGMT_CLOSE, 3)}

InitHandlers == InitWith({<<1, 2>>, <<2, 1>>})

NextHandlers ==
  \/ \E sa \in SockAddrs, d \in HandlerRecs : RecvZprn(sa, <<d>>)
  \/ SenderTake

SpecHandlers == InitHandlers /\ [][NextHandlers]_vars

\* the step handled one ROUTEMOD delete / one CONNMGMT close record
StepRoutemodDelete ==
  /\ ev'.op = "zprn"
  /\ ev'.arg[1].zprn_cmd = ZPRN_ROUTEMOD /\ ev'.arg[1].zprn_prio = 255

StepConnClose ==
  /\ ev'.op = "zprn"
  /\ ev'.arg[1].zprn_cmd = ZPRN_CONNMGMT /\ ev'.arg[1].zprn_prio = ZPRN_CONNMGMT_CLOSE

\* the routers of dest after the step
RoutersAfter(dest) == IF dest \in DOMAIN routes' THEN routes'[dest].routers ELSE <<>>

\* exactly one record was enqueued by the step: ROUTEMOD for dest with the
\* given prio, addressed to exactly the peers in to
StepEnqueuedRoutemod(dest, prio, to) ==
  /\ Len(zprn_msgs') = Len(zprn_msgs) + 1
  /\ SubSeq(zprn_msgs', 1, Len(zprn_msgs)) = zprn_msgs
  /\ LET m == zprn_msgs'[Len(zprn_msgs')]
     IN  /\ m.zprn = Rec(ZPRN_ROUTEMOD, prio, dest)
         /\ RangeOf(m.dests) = to
         /\ \A i, j \in DOMAIN m.dests : i # j => m.dests[i] # m.dests[j]

\* C4: a ROUTEMOD delete for dest from peer P removes P as router of dest; for
\* a dest that is not a local address, if a router remains exactly one
\* ROUTEMOD add (prio = hop count of the new primary, hence not 0xff) goes to
\* every registered peer except that primary, and if none remains nothing is
\* emitted.
C4_AsStated ==
  [][StepRoutemodDelete =>
       LET dest == ev'.arg[1].route
           after == RoutersAfter(dest)
       IN  /\ \A i \in DOMAIN after : after[i].addr # ev'.peer
           /\ dest \notin RangeOf(locals) =>
                IF after # <<>>
                THEN /\ after[1].hops # 255
                     /\ StepEnqueuedRoutemod(dest, after[1].hops,
                                             RangeOf(remotes') \ {after[1].addr})
                ELSE zprn_msgs' = zprn_msgs]_vars

\* C5 as stated: a ROUTEMOD delete from P for a local address is answered by
\* ROUTEMOD add prio 0 to all registered peers except P.
C5_AsStated ==
  [][(StepRoutemodDelete /\ ev'.arg[1].route \in RangeOf(locals)) =>
       StepEnqueuedRoutemod(ev'.arg[1].route, 0, RangeOf(remotes') \ {ev'.peer})]_vars

\* C5 amended: a ROUTEMOD delete from P for a local address is answered by one
\* ROUTEMOD add prio 0 addressed to every registered peer, P included.
C5_LocalDelete ==
  [][(StepRoutemodDelete /\ ev'.arg[1].route \in RangeOf(locals)) =>
       /\ StepEnqueuedRoutemod(ev'.arg[1].route, 0, RangeOf(remotes'))
       /\ ev'.peer \in RangeOf(remotes')]_vars

C5_Witness ==
  /\ ev.op = "zprn" /\ ev.arg[1] = Rec(ZPRN_ROUTEMOD, 255, 1)
  /\ Len(remotes) >= 2
  /\ Len(zprn_msgs) = 1
  /\ zprn_msgs[1].zprn = Rec(ZPRN_ROUTEMOD, 0, 1)
  /\ ev.peer \in RangeOf(zprn_msgs[1].dests)

\* C6: after a CONNMGMT close with route A from peer P no entry lists P as a
\* router, the entry keyed by A has no router, and every other entry keeps
\* its routers other than P as they were.
C6_ConnClose ==
  [][StepConnClose =>
       LET A == ev'.arg[1].route
           P == ev'.peer
           notP(r) == r.addr # P
       IN  /\ \A a \in DOMAIN routes' : \A i \in DOMAIN routes'[a].routers :
                routes'[a].routers[i].addr # P
           /\ RoutersAfter(A) = <<>>
           /\ \A a \in DOMAIN routes \ {A} :
                /\ a \in DOMAIN routes'
                /\ routes'[a].routers = SelectSeq(routes[a].routers, notP)]_vars

\* a close from P after which dest 3 is still routed via another peer
C6_Witness ==
  /\ ev.op = "zprn" /\ ev.arg[1] = Rec(ZPRN_CONNMGMT, ZPRN_CONNMGMT_CLOSE, 2)
  /\ 2 \in DOMAIN routes /\ routes[2].routers = <<>>
  /\ have_route(routes, 3)
  /\ Len(routes[3].routers) = 1
  /\ get_router(routes[3]) \in RangeOf(remotes) \ {ev.peer}

---------------------------------------------------------------------------
(* route announcements and the cleanup pass: the first configured remote   *)
(* never resolves; the second is at socket address 2 at startup and its    *)
(* name resolves to address 2 or, after a change of address, to address 1  *)

TickRecs == {Rec(ZPRN_ROUTEMOD, 0, 3), Rec(ZPRN_ROUTEMOD, 1, 3)}

InitTick == InitWith({<<0, 2>>})

NextTick ==
  \/ \E sa \in {1, 2}, d \in TickRecs : RecvZprn(sa, <<d>>)
  \/ SenderTake
  \/ \E dt \in 1 .. MaxWait, res \in {<<0, 2>>, <<0, 1>>} : TimeStep(dt, res)

SpecTick == InitTick /\ [][NextTick]_vars

\* the records the step appended to the ZPRN queue
StepNewZprn == SubSeq(zprn_msgs', Len(zprn_msgs) + 1, Len(zprn_msgs'))

\* the peers the step addressed a PROBE with the given prio for dest to
StepProbed(dest, prio) ==
  UNION {RangeOf(StepNewZprn[i].dests) :
           i \in {n \in DOMAIN StepNewZprn :
                    StepNewZprn[n].zprn = Rec(ZPRN2_PROBE, prio, dest)}}

\* the cleanup pass of the step found entry k non-empty and not fresh with a
\* primary router last seen more than remote_timeout ago
StepFoundStale(k) ==
  /\ ev'.op = "tick"
  /\ k \in DOMAIN routes /\ ~routes[k].fresh_add
  /\ k \in DOMAIN routes' /\ routes'[k].routers # <<>>
  /\ routes'[k].routers[1].seen < last_time' - remote_timeout

\* the registered peers among the routers of entry k after the step
StepRouterPeers(k) ==
  {routes'[k].routers[i].addr : i \in DOMAIN routes'[k].routers} \cap RangeOf(remotes)

\* C7: a primary router is removed by aging only if a PROBE for its
\* destination was emitted at an earlier cleanup pass while it was primary.
\* (Stated for the routers that are peers; the local sentinel is left out.)
C7_AsStated ==
  [][ev'.op = "tick" =>
       \A j \in DOMAIN ev'.log :
         (ev'.log[j].what = "outdated" /\ ev'.log[j].primary /\ ev'.log[j].router > 0)
           => <<ev'.log[j].dest, ev'.log[j].router>> \in probed]_vars

\* C8: when the cleanup pass finds such an entry no router is deleted from it
\* in that pass, PROBE 0xfe goes to exactly the peers listed as its routers
\* and PROBE 0xff to exactly the other registered peers.
C8_AsStated ==
  [][\A k \in InnerAddrs :
       StepFoundStale(k) =>
         /\ RangeOf(routes'[k].routers) = RangeOf(routes[k].routers)
         /\ StepProbed(k, 254) = StepRouterPeers(k)
         /\ StepProbed(k, 255) = RangeOf(remotes) \ StepRouterPeers(k)]_vars

\* the same without the demand that no router leaves the entry
C8_Partition ==
  [][\A k \in InnerAddrs :
       StepFoundStale(k) =>
         /\ StepProbed(k, 254) = StepRouterPeers(k)
         /\ StepProbed(k, 255) = RangeOf(remotes) \ StepRouterPeers(k)]_vars

\* C9: every ROUTEMOD add flooded by the cleanup pass or as correction echo
\* is addressed to all registered peers except the primary router of its
\* destination at that moment.
C9_AsStated ==
  [][(ev'.op = "tick" \/ StepRoutemodDelete) =>
       \A n \in DOMAIN StepNewZprn :
         LET m == StepNewZprn[n]
             registry == IF ev'.op = "tick" THEN remotes ELSE remotes'
         IN  (m.zprn.zprn_cmd = ZPRN_ROUTEMOD /\ m.zprn.zprn_prio # 255)
               => /\ have_route(routes', m.zprn.route)
                  /\ RangeOf(m.dests) = RangeOf(registry) \ {get_router(routes'[m.zprn.route])}]_vars

---------------------------------------------------------------------------
(* route_via_t on its own: the member functions applied to one entry *)

RvDest == CHOOSE a \in InnerAddrs : AddrBytes(a) = <<10, 1, 0, 3>>
RvRouters == {local_router, 1, 2, 3}
RvHops == {64, 255}
RvSteps == {3}
\* socket addresses of the three peer objects: two of them share one
RvPeers == {<<1, 1, 2>>}

InitRV ==
  /\ host_le = TRUE
  /\ \E sas \in RvPeers :
       pdat = [i \in DOMAIN sas |-> new_peer(sas[i], 0, 0)]
  /\ remotes = <<1, 2, 3>>
  /\ found_remotes = <<>>
  /\ routes = (RvDest :> empty_route)
  /\ ping_cache = empty_ping
  /\ last_time = 0
  /\ pastt_clu = 0
  /\ tasks = <<>>
  /\ zprn_msgs = <<>>
  /\ ev = [op |-> "init", peer |-> null_peer, arg |-> 0, log |-> <<>>]
  /\ probed = {}
  /\ sender_start

RvFrame == <<pdat, remotes, found_remotes, ping_cache, pastt_clu, tasks,
             zprn_msgs, host_le, probed, sender_vars>>

RvAddRouter(router, hops) ==
  LET r == add_router(routes[RvDest], pdat, router, hops, last_time)
  IN  /\ routes' = [routes EXCEPT ![RvDest] = r.rv]
      /\ ev' = [op |-> "add_router", peer |-> router, arg |-> hops, log |-> <<r.ret>>]
      /\ UNCHANGED <<last_time, RvFrame>>

RvUpdateRouter(router, hops, latency) ==
  /\ routes' = [routes EXCEPT
                  ![RvDest] = update_router(@, pdat, router, hops, latency, last_time)]
  /\ ev' = [op |-> "update_router", peer |-> router, arg |-> hops, log |-> <<>>]
  /\ UNCHANGED <<last_time, RvFrame>>

RvDelRouter(router) ==
  LET r == del_router(routes[RvDest], router)
  IN  /\ routes' = [routes EXCEPT ![RvDest] = r.rv]
      /\ ev' = [op |-> "del_router", peer |-> router, arg |-> 0, log |-> <<r.ret>>]
      /\ UNCHANGED <<last_time, RvFrame>>

\* the clock moves on and cleanup() runs on the entry
RvCleanup(dt) ==
  /\ last_time + dt <= MaxTime
  /\ last_time' = last_time + dt
  /\ routes' = [routes EXCEPT ![RvDest] = cleanup(@, last_time + dt).rv]
  /\ ev' = [op |-> "cleanup", peer |-> null_peer, arg |-> dt, log |-> <<>>]
  /\ UNCHANGED RvFrame

NextRV ==
  \/ \E router \in RvRouters, hops \in RvHops : RvAddRouter(router, hops)
  \/ \E router \in RvRouters, hops \in RvHops, latency \in LatencySet :
       RvUpdateRouter(router, hops, latency)
  \/ \E router \in RvRouters : RvDelRouter(router)
  \/ \E dt \in RvSteps : RvCleanup(dt)

SpecRV == InitRV /\ [][NextRV]_vars

\* positions of the routers of the list `rs` that match `router`: same peer
\* object or equal socket address
RvMatching(rs, router) ==
  {i \in DOMAIN rs : rs[i].addr = router \/ SA(pdat, rs[i].addr) = SA(pdat, router)}

\* C10: add_router returns true iff no router of the entry matched before the
\* call (same identity or equal socket address); on true the new router
\* (seen = now, latency = 0, given hops) is the head and the old list follows
\* unchanged; on false the list keeps its length and order and only the seen
\* (now) and hops (hop-count update rule) of the matching router change.
C10_AddRouter ==
  [][ev'.op = "add_router" =>
       LET old == routes[RvDest].routers
           new == routes'[RvDest].routers
           match == RvMatching(old, ev'.peer)
           ret == ev'.log[1]
       IN  /\ ret <=> match = {}
           /\ ret => new = <<[addr |-> ev'.peer, seen |-> last_time,
                              latency |-> 0, hops |-> ev'.arg]>> \o old
           /\ ~ret =>
                /\ Len(new) = Len(old)
                /\ \E i \in match :
                     /\ \A j \in DOMAIN old : j # i => new[j] = old[j]
                     /\ new[i] = [addr |-> old[i].addr,
                                  seen |-> last_time,
                                  latency |-> old[i].latency,
                                  hops |-> IF ev'.arg > old[i].hops
                                              /\ ev'.arg - old[i].hops \in {190, 191}
                                           THEN old[i].hops
                                           ELSE ev'.arg]]_vars

\* add_router has just returned false for a peer that is in the entry only
\* through another peer object with an equal socket address, in second place
C10_Witness ==
  /\ ev.op = "add_router"
  /\ ev.log = <<FALSE>>
  /\ Len(routes[RvDest].routers) >= 2
  /\ routes[RvDest].routers[2].addr # ev.peer
  /\ SA(pdat, routes[RvDest].routers[2].addr) = SA(pdat, ev.peer)
  /\ \A i \in DOMAIN routes[RvDest].routers : routes[RvDest].routers[i].addr # ev.peer
  /\ routes[RvDest].routers[2].seen = last_time
  /\ last_time > routes[RvDest].routers[1].seen

\* C11: del_router removes every router of the entry that matches the argument
\* (same peer object or equal socket address) and keeps the others in order,
\* returns true iff one was removed, and leaves no router whose socket address
\* equals that of the argument.
C11_AsStated ==
  [][ev'.op = "del_router" =>
       LET old == routes[RvDest].routers
           new == routes'[RvDest].routers
           keep(a) == ~(a.addr = ev'.peer \/ SA(pdat, a.addr) = SA(pdat, ev'.peer))
       IN  /\ new = SelectSeq(old, keep)
           /\ ev'.log[1] <=> RvMatching(old, ev'.peer) # {}
           /\ \A i \in DOMAIN new : SA(pdat, new[i].addr) # SA(pdat, ev'.peer)]_vars

---------------------------------------------------------------------------
(* the hop-count update on its own: one router with every 8-bit hop count *)

HopValues == 0 .. 255

\* observed hop counts offered for a stored one: fixed values and the
\* neighbourhood of the differences 0xbe and 0xbf in both directions
HopNews(old) ==
  ({0, 1, 64, 190, 191, 255}
     \cup {old + d : d \in {189, 190, 191, 192}}
     \cup {old - d : d \in {189, 190, 191, 192}}) \cap HopValues

InitHop ==
  /\ host_le = TRUE
  /\ pdat = <<new_peer(1, 0, 0)>>
  /\ remotes = <<1>>
  /\ found_remotes = <<>>
  /\ \E old \in HopValues :
       routes = (RvDest :> [routers |-> <<[addr |-> 1, seen |-> 0, latency |-> 0,
                                           hops |-> old]>>,
                            fresh_add |-> FALSE])
  /\ ping_cache = empty_ping
  /\ last_time = 0
  /\ pastt_clu = 0
  /\ tasks = <<>>
  /\ zprn_msgs = <<>>
  /\ ev = [op |-> "init", peer |-> null_peer, arg |-> 0, log |-> <<>>]
  /\ probed = {}
  /\ sender_start

NextHop ==
  \/ \E new \in HopNews(routes[RvDest].routers[1].hops) : RvAddRouter(1, new)
  \/ \E new \in HopNews(routes[RvDest].routers[1].hops), latency \in LatencySet :
       RvUpdateRouter(1, new, latency)

SpecHop == InitHop /\ [][NextHop]_vars

\* C12: after add_router on an existing router and after update_router the
\* stored hop count is the new one, unless new > old and new - old is 0xbe or
\* 0xbf, in which case it stays the old one; nothing is kept when new < old.
C12_HopRule ==
  [][ev'.op \in {"add_router", "update_router"} =>
       LET old == routes[RvDest].routers[1].hops
           new == ev'.arg
           got == routes'[RvDest].routers[1].hops
       IN  /\ Len(routes'[RvDest].routers) = 1
           /\ (new > old /\ new - old \in {190, 191}) => got = old
           /\ ~(new > old /\ new - old \in {190, 191}) => got = new
           /\ new < old => got = new
           /\ \A n \in HopValues :
                update_hopcnt(old, n) =
                  IF n > old /\ n - old \in {190, 191} THEN old ELSE n]_vars

\* update_router has just kept the stored hop count 64 against an observed 0xff
\* (difference 0xbf)
C12_Witness ==
  /\ ev.op = "update_router"
  /\ ev.arg = 255
  /\ routes[RvDest].routers[1].hops = 64
  /\ routes[RvDest].routers[1].latency \in LatencySet

\* (a.hops, a.latency, -a.seen) <= (b.hops, b.latency, -b.seen), lexicographic
RvKeyLeq(a, b) ==
  \/ a.hops < b.hops
  \/ a.hops = b.hops /\ a.latency < b.latency
  \/ a.hops = b.hops /\ a.latency = b.latency /\ a.seen >= b.seen

\* C13: immediately after cleanup of an entry every two consecutive routers
\* a, b satisfy (a.hops, a.latency, -a.seen) <= (b.hops, b.latency, -b.seen).
C13_CleanupOrder ==
  [][ev'.op = "cleanup" =>
       \A i \in 1 .. Len(routes'[RvDest].routers) - 1 :
         RvKeyLeq(routes'[RvDest].routers[i], routes'[RvDest].routers[i + 1])]_vars

\* cleanup has just left three routers: the first two tie in hop count and
\* differ in latency, the third has a larger hop count than the second
C13_Witness ==
  /\ ev.op = "cleanup"
  /\ Len(routes[RvDest].routers) = 3
  /\ routes[RvDest].routers[1].hops = routes[RvDest].routers[2].hops
  /\ routes[RvDest].routers[1].latency < routes[RvDest].routers[2].latency
  /\ routes[RvDest].routers[1].seen < routes[RvDest].routers[2].seen
  /\ routes[RvDest].routers[2].hops < routes[RvDest].routers[3].hops

---------------------------------------------------------------------------
(* aging on its own: routers added at different times, cleanup in between *)

AgeSteps == {4, 5}
AgeHops == {64}

\* cleanup() with the callback recording the routers it is handed
AgeCleanup(dt) ==
  /\ last_time + dt <= MaxTime
  /\ last_time' = last_time + dt
  /\ routes' = [routes EXCEPT ![RvDest] = cleanup(@, last_time + dt).rv]
  /\ ev' = [op |-> "cleanup", peer |-> null_peer, arg |-> dt,
            log |-> cleanup(routes[RvDest], last_time + dt).dropped]
  /\ UNCHANGED RvFrame

NextAge ==
  \/ \E router \in RvRouters, hops \in AgeHops : RvAddRouter(router, hops)
  \/ \E router \in RvRouters, hops \in AgeHops, latency \in LatencySet :
       RvUpdateRouter(router, hops, latency)
  \/ \E dt \in AgeSteps : AgeCleanup(dt)

SpecAge == InitRV /\ [][NextAge]_vars

\* C14: cleanup removes exactly the routers with seen <= now - 2 * remote_timeout,
\* hands each of them to on_drop exactly once, keeps every router with
\* seen > now - 2 * remote_timeout, adds none and changes no kept router.
C14_AgingThreshold ==
  [][ev'.op = "cleanup" =>
       LET old == routes[RvDest].routers
           new == routes'[RvDest].routers
           ct == last_time' - 2 * remote_timeout
           aged(a) == a.seen <= ct
           young(a) == a.seen > ct
       IN  /\ ev'.log = SelectSeq(old, aged)
           /\ Len(new) = Len(SelectSeq(old, young))
           /\ RangeOf(new) = RangeOf(SelectSeq(old, young))]_vars

\* cleanup has just dropped a router whose seen is exactly now - 2 * remote_timeout
\* and kept a younger one
C14_Witness ==
  /\ ev.op = "cleanup"
  /\ Len(ev.log) = 1
  /\ ev.log[1].seen = last_time - 2 * remote_timeout
  /\ Len(routes[RvDest].routers) = 2
  /\ \A i \in DOMAIN routes[RvDest].routers :
       routes[RvDest].routers[i].seen > last_time - 2 * remote_timeout

---------------------------------------------------------------------------
(* ZPRN v2 on the wire: sender_t::worker_fn builds, handle_zprn_v2_pkt parses *)

\* a 16 bit value as it lies in memory on the host
mem16(le, v) == IF le THEN <<v % 256, v \div 256>> ELSE <<v \div 256, v % 256>>
val16(le, b) == IF le THEN b[1] + 256 * b[2] ELSE 256 * b[1] + b[2]

\* htons / ntohs: a byte swap on a little-endian host, nothing on a big-endian one
htons(le, v) == IF le THEN (v % 256) * 256 + v \div 256 ELSE v
ntohs(le, v) == IF le THEN (v % 256) * 256 + v \div 256 ELSE v

\* inner_addr_t::get_tflen, type in host byte order: the type tag and the
\* address bytes that follow it
get_tflen(type) ==
  2 + (IF type = IAFA_AT_INET THEN 4 ELSE IF type = IAFA_AT_INET6 THEN 16 ELSE 0)

\* zprn_v2::get_needed_size
get_needed_size(type) == 2 + get_tflen(type)

\* the address bytes of an inner address in memory (an IPv6 address of the
\* address table is its first and its last byte, the other fourteen are zero)
addr_mem(a) ==
  IF AddrType(a) = IAFA_AT_INET THEN AddrBytes(a)
  ELSE <<AddrBytes(a)[1]>> \o [i \in 1 .. 14 |-> 0] \o <<AddrBytes(a)[2]>>

\* zprn_hdrv: a zeroed zprn_v2hdr with zprn_ver = 2
zprn_hdrv == <<0, 2, 0, 0>>

\* variant: the record copied without zprn_rttr, the type in host byte order
zprn_bytes_hostorder(le, z) ==
  SubSeq(<<z.zprn_cmd, z.zprn_prio>> \o mem16(le, AddrType(z.route)) \o addr_mem(z.route),
         1, get_needed_size(AddrType(z.route)))

\* the first get_needed_size() bytes of a zprn_v2 after zprn_rttr (type = htons(type))
zprn_bytes(le, z) ==
  SubSeq(<<z.zprn_cmd, z.zprn_prio>> \o mem16(le, htons(le, AddrType(z.route)))
           \o addr_mem(z.route),
         1, get_needed_size(AddrType(z.route)))

\* variant of zprn_pack_step: a slot is never closed
zprn_pack_step_nolimit(bufs, rec) ==
  IF bufs = <<>> THEN Append(bufs, zprn_hdrv \o rec)
  ELSE [bufs EXCEPT ![Len(bufs)] = @ \o rec]

\* one round of the loop over i.dests for one destination: a new buffer slot
\* is opened when there is none or the last one would exceed 1232 bytes, and
\* the record is appended to the last slot
zprn_pack_step(bufs, rec) ==
  IF bufs = <<>> \/ Len(bufs[Len(bufs)]) + Len(rec) > 1232
  THEN Append(bufs, zprn_hdrv \o rec)
  ELSE [bufs EXCEPT ![Len(bufs)] = @ \o rec]

\* the multi-message path for one destination: `recs` are the byte strings of
\* the records addressed to it, in queue order; the rounds lo .. hi of the loop
\* (halved, the first half evaluated before the second one is entered, so
\* that the evaluation stays shallow)
RECURSIVE zprn_pack(_, _, _, _)
zprn_pack(bufs, recs, lo, hi) ==
  IF lo > hi THEN bufs
  ELSE IF lo = hi THEN zprn_pack_step(bufs, recs[lo])
  ELSE CHOOSE r \in {zprn_pack(b, recs, (lo + hi) \div 2 + 1, hi) :
                      b \in {zprn_pack(bufs, recs, lo, (lo + hi) \div 2)}} : TRUE

\* the records of the messages lo .. hi of the batch addressed to dest, once
\* per occurrence of dest in a destination list
RECURSIVE zprn_for(_, _, _, _, _)
zprn_for(le, msgs, dest, lo, hi) ==
  IF lo > hi THEN <<>>
  ELSE IF lo = hi
       THEN [i \in 1 .. SeqCount(msgs[lo].dests, dest) |-> zprn_bytes(le, msgs[lo].zprn)]
       ELSE zprn_for(le, msgs, dest, lo, (lo + hi) \div 2)
              \o zprn_for(le, msgs, dest, (lo + hi) \div 2 + 1, hi)

\* sendto_peer calls for one destination: [to, buf]
zprn_sendto(dest, bufs) == [i \in DOMAIN bufs |-> [to |-> dest, buf |-> bufs[i]]]

\* the buffer slots of one destination
zprn_buf(le, msgs, dest) ==
  zprn_pack(<<>>, zprn_for(le, msgs, dest, 1, Len(msgs)), 1,
            Len(zprn_for(le, msgs, dest, 1, Len(msgs))))

\* the datagrams of a batch in send order; `order` is the order in which the
\* unordered_map zprn_buf yields the destinations
RECURSIVE zprn_flush(_, _, _, _)
zprn_flush(le, msgs, order, k) ==
  IF k > Len(order) THEN <<>>
  ELSE zprn_sendto(order[k], zprn_buf(le, msgs, order[k])) \o zprn_flush(le, msgs, order, k + 1)

\* destinations of a batch
zprn_dests(msgs) == UNION {RangeOf(msgs[k].dests) : k \in DOMAIN msgs}

\* the sendto_peer calls worker_fn makes for the batch zprn_msgs: one message
\* skips the concat part
worker_zprn(le, msgs, order) ==
  IF Len(msgs) = 1
  THEN [i \in DOMAIN msgs[1].dests |->
          [to |-> msgs[1].dests[i], buf |-> zprn_hdrv \o zprn_bytes(le, msgs[1].zprn)]]
  ELSE zprn_flush(le, msgs, order, 1)

\* one round of the while loop of handle_zprn_v2_pkt; st is [bptr, out, done]:
\* out are the records handed to the handlers, [zprn_cmd, zprn_prio, type, addr]
zprn_parse_step(le, buf, st) ==
  IF st.done \/ st.bptr >= Len(buf) \/ st.bptr + 4 > Len(buf) THEN [st EXCEPT !.done = TRUE]
  ELSE LET type == ntohs(le, val16(le, SubSeq(buf, st.bptr + 3, st.bptr + 4)))
           size == get_needed_size(type)
       IN  IF st.bptr + size > Len(buf) THEN [st EXCEPT !.done = TRUE]
           ELSE [bptr |-> st.bptr + size,
                 out |-> Append(st.out, [zprn_cmd |-> buf[st.bptr + 1],
                                         zprn_prio |-> buf[st.bptr + 2],
                                         type |-> type,
                                         addr |-> SubSeq(buf, st.bptr + 5, st.bptr + size)]),
                 done |-> FALSE]

\* n rounds of the loop (halved, so that the evaluation stays shallow)
RECURSIVE zprn_parse_loop(_, _, _, _)
zprn_parse_loop(le, buf, st, n) ==
  IF n = 0 THEN st
  ELSE IF n = 1 THEN zprn_parse_step(le, buf, st)
  ELSE CHOOSE r \in {zprn_parse_loop(le, buf, t, n - n \div 2) :
                      t \in {zprn_parse_loop(le, buf, st, n \div 2)}} : TRUE

\* handle_zprn_pkt / handle_zprn_v2_pkt: a record takes four bytes or more,
\* so Len(buf) \div 4 rounds end the loop
zprn_parse(le, buf) ==
  IF Len(buf) < 4 \/ buf[1] # 0 \/ buf[2] # 2 \/ ~(4 + 2 < Len(buf))
  THEN <<>>
  ELSE zprn_parse_loop(le, buf, [bptr |-> 4, out |-> <<>>, done |-> FALSE], Len(buf) \div 4).out

---------------------------------------------------------------------------
(* sender_t: the worker thread next to the main thread *)

\* data frames the main thread enqueues in one run
MaxFrames == 2

SenderPeers == <<new_peer(1, 0, 0), new_peer(2, 0, 0)>>

\* destination lists of a send_data handed to enqueue
SenderDests == {<<>>, <<1>>, <<2, 1>>, <<local_router>>}

\* batches of zprn2_sdat found in _zprn_msgs at start: BatchLens records, the
\* k-th one with prio k; under pattern 1 every 62nd route is IPv4 and the
\* others IPv6, under pattern 2 they alternate
BatchLens == {0, 1, 63, 125}
BatchPatterns == {1, 2}

BatchRoute(pat, k) ==
  IF pat = 1 THEN (IF k % 62 = 0 THEN 1 ELSE 21) ELSE (IF k % 2 = 0 THEN 2 ELSE 22)

BatchDests(k) == IF k % 3 = 0 THEN <<1>> ELSE IF k % 3 = 1 THEN <<1, 2>> ELSE <<2, 1>>

BatchCmd(k) == IF k % 3 = 0 THEN ZPRN_ROUTEMOD ELSE IF k % 3 = 1 THEN ZPRN_CONNMGMT ELSE ZPRN2_PROBE

\* the queue after enqueue(zprn2_sdat&&) was called for the records 1 .. n
enqueue_batch(pat, n) ==
  [k \in 1 .. n |->
     enqueue_zprn(<<>>, SenderPeers,
                  [zprn |-> [zprn_cmd |-> BatchCmd(k), zprn_prio |-> k % 256,
                             route |-> BatchRoute(pat, k)],
                   dests |-> BatchDests(k), confirmed |-> null_peer])[1]]

InitSender ==
  /\ host_le \in BOOLEAN
  /\ pdat = SenderPeers
  /\ remotes = <<1, 2>>
  /\ found_remotes = <<>>
  /\ routes = local_routes
  /\ ping_cache = empty_ping
  /\ last_time = 0
  /\ pastt_clu = 0
  /\ tasks = <<>>
  /\ \E n \in BatchLens, pat \in BatchPatterns : zprn_msgs = enqueue_batch(pat, n)
  /\ ev = [op |-> "init", peer |-> null_peer, arg |-> 0, log |-> no_log]
  /\ probed = {}
  /\ sender_start

SenderFrame == <<pdat, remotes, routes, ping_cache, last_time, pastt_clu, found_remotes, host_le, probed>>

\* the process is alive until main returns
Running == mainpc # "returned"

\* worker_fn, the locked block: the wait is over when _stop is set or a queue
\* is filled; both queues empty means return, else both are moved out
WorkerTake ==
  /\ Running
  /\ worker.pc = "wait"
  /\ tasks # <<>> \/ zprn_msgs # <<>>
  /\ worker' = [worker EXCEPT !.pc = "data", !.tasks = tasks, !.zprn_msgs = zprn_msgs, !.k = 1]
  /\ tasks' = <<>>
  /\ zprn_msgs' = <<>>
  /\ ev' = [op |-> "take", peer |-> null_peer, arg |-> 0, log |-> no_log]
  /\ UNCHANGED <<SenderFrame, stop, mainpc, net, enqlog>>

WorkerExit ==
  /\ Running
  /\ worker.pc = "wait"
  /\ stop
  /\ tasks = <<>> /\ zprn_msgs = <<>>
  /\ worker' = [worker EXCEPT !.pc = "exited"]
  /\ ev' = [op |-> "exit", peer |-> null_peer, arg |-> 0, log |-> no_log]
  /\ UNCHANGED <<SenderFrame, tasks, zprn_msgs, stop, mainpc, net, enqlog>>

\* one round of the loop over tasks: write() to the tun device for an empty
\* destination list, else sendto_peer for each destination in order
data_sends(dat) ==
  IF dat.dests = <<>>
  THEN <<[to |-> local_router, buf |-> dat.buffer, kind |-> "write"]>>
  ELSE [i \in DOMAIN dat.dests |-> [to |-> dat.dests[i], buf |-> dat.buffer, kind |-> "data"]]

\* the bit IP_DF of a 16 bit word (netinet/ip.h)
IP_DF == 16384

\* dat.frag & htons(IP_DF): frag is ip_off as it stands in the header, both
\* operands are in network byte order
frame_df(frag) == (frag \div IP_DF) % 2 = 1

\* set_df and set_tos, setsockopt succeeding; o is [df, tos, sock, calls] with
\* calls the setsockopt calls made so far in the step.  IP_TOS takes the low
\* byte, IPV6_TCLASS the whole value
set_df(o, cdf) ==
  [o EXCEPT !.df = cdf, !.sock.df = cdf, !.calls = Append(@, <<"df", cdf>>)]

set_tos(o, ctos) ==
  [o EXCEPT !.tos = ctos, !.sock.tos = ctos % 256, !.calls = Append(@, <<"tos", ctos>>)]

worker_opts(w) == [df |-> w.df, tos |-> w.tos, sock |-> w.sock, calls |-> <<>>]

\* variant of data_opts: the outer options are left as they are
data_opts_kept(o, dat) == o

\* the data loop before sendto_peer: if(tos != dat.tos) set_tos(dat.tos), then
\* if(df != cdf) set_df(cdf); nothing of it for a frame that goes to the tun
\* device
data_opts(o, dat) ==
  IF dat.dests = <<>> THEN o
  ELSE LET o1 == IF o.tos # dat.tos THEN set_tos(o, dat.tos) ELSE o
       IN  IF o1.df # frame_df(dat.frag) THEN set_df(o1, frame_df(dat.frag)) ELSE o1

\* before the ZPRN part: if(df) set_df(false); if(tos) set_tos(0)
zprn_opts(o) ==
  LET o1 == IF o.df THEN set_df(o, FALSE) ELSE o
  IN  IF o1.tos # 0 THEN set_tos(o1, 0) ELSE o1

\* the datagrams with the socket options they are sent under (without
\* meaning for a write() to the tun device)
sent_under(sends, sock) ==
  [i \in DOMAIN sends |->
     [to |-> sends[i].to, buf |-> sends[i].buf, kind |-> sends[i].kind,
      df |-> sock.df, tos |-> sock.tos]]

WorkerSendData ==
  /\ Running
  /\ worker.pc = "data"
  /\ worker.k <= Len(worker.tasks)
  /\ \E o \in {data_opts(worker_opts(worker), worker.tasks[worker.k])} :
       /\ net' = net \o sent_under(data_sends(worker.tasks[worker.k]), o.sock)
       /\ worker' = [worker EXCEPT !.k = @ + 1, !.df = o.df, !.tos = o.tos, !.sock = o.sock]
       /\ ev' = [op |-> "senddata", peer |-> null_peer, arg |-> worker.k, log |-> o.calls]
  /\ UNCHANGED <<SenderFrame, tasks, zprn_msgs, stop, mainpc, enqlog>>

\* if(zprn_msgs.empty()) goto flush_stdstreams
WorkerNoZprn ==
  /\ Running
  /\ worker.pc = "data"
  /\ worker.k > Len(worker.tasks)
  /\ worker.zprn_msgs = <<>>
  /\ worker' = [worker EXCEPT !.pc = "wait"]
  /\ ev' = [op |-> "flush", peer |-> null_peer, arg |-> 0, log |-> no_log]
  /\ UNCHANGED <<SenderFrame, tasks, zprn_msgs, stop, mainpc, net, enqlog>>

\* orders in which an unordered_map can yield the keys S
Orders(S) == {o \in [1 .. Cardinality(S) -> S] : \A i, j \in DOMAIN o : o[i] = o[j] => i = j}

zprn_kind(sends) == [i \in DOMAIN sends |-> [to |-> sends[i].to, buf |-> sends[i].buf, kind |-> "zprn"]]

\* the ZPRN part of one round: build and send, then back to the wait
WorkerSendZprn ==
  /\ Running
  /\ worker.pc = "data"
  /\ worker.k > Len(worker.tasks)
  /\ worker.zprn_msgs # <<>>
  /\ \E order \in Orders(zprn_dests(worker.zprn_msgs)), o \in {zprn_opts(worker_opts(worker))} :
       /\ net' = net \o sent_under(zprn_kind(worker_zprn(host_le, worker.zprn_msgs, order)),
                                   o.sock)
       /\ worker' = [pc |-> "wait", tasks |-> <<>>, zprn_msgs |-> <<>>, k |-> 0,
                     df |-> o.df, tos |-> o.tos, sock |-> o.sock]
       /\ ev' = [op |-> "sendzprn", peer |-> null_peer, arg |-> 0, log |-> o.calls]
  /\ UNCHANGED <<SenderFrame, tasks, zprn_msgs, stop, mainpc, enqlog>>

\* the main loop hands a frame to sender.enqueue(send_data&&); its buffer is
\* the number of the frame
MainEnqueueData ==
  /\ mainpc = "loop"
  /\ Len(enqlog) < MaxFrames
  /\ \E ds \in SenderDests :
       /\ tasks' = enqueue_data(tasks, pdat, [buffer |-> Len(enqlog) + 1, dests |-> ds,
                                              frag |-> 0, tos |-> 0])
       /\ enqlog' = IF Len(tasks') > Len(tasks)
                    THEN Append(enqlog, [buffer |-> Len(enqlog) + 1, dests |-> ds])
                    ELSE enqlog
       /\ ev' = [op |-> "enqueue", peer |-> null_peer, arg |-> Len(ds), log |-> no_log]
  /\ UNCHANGED <<SenderFrame, zprn_msgs, worker, stop, mainpc, net>>

\* main after the loop: send_zprn_connmgmt_msg(ZPRN_CONNMGMT_CLOSE)
MainClose ==
  /\ mainpc = "loop"
  /\ zprn_msgs' = send_zprn_msg(zprn_msgs, routes, pdat, remotes,
                                connmgmt_msg(ZPRN_CONNMGMT_CLOSE), null_peer)
  /\ mainpc' = "closing"
  /\ ev' = [op |-> "close", peer |-> null_peer, arg |-> 0, log |-> no_log]
  /\ UNCHANGED <<SenderFrame, tasks, worker, stop, net, enqlog>>

\* sender_t::stop
MainStop ==
  /\ mainpc = "closing"
  /\ stop' = TRUE
  /\ mainpc' = "stopped"
  /\ ev' = [op |-> "stop", peer |-> null_peer, arg |-> 0, log |-> no_log]
  /\ UNCHANGED <<SenderFrame, tasks, zprn_msgs, worker, net, enqlog>>

\* return retcode: the process ends, and the detached worker with it
MainReturn ==
  /\ mainpc = "stopped"
  /\ mainpc' = "returned"
  /\ ev' = [op |-> "return", peer |-> null_peer, arg |-> 0, log |-> no_log]
  /\ UNCHANGED <<SenderFrame, tasks, zprn_msgs, worker, stop, net, enqlog>>

NextSender ==
  \/ WorkerTake
  \/ WorkerExit
  \/ WorkerSendData
  \/ WorkerNoZprn
  \/ WorkerSendZprn
  \/ MainEnqueueData
  \/ MainClose
  \/ MainStop
  \/ MainReturn

SpecSender == InitSender /\ [][NextSender]_vars

\* what the last step handed to the network
LastSent(before, after) == SubSeq(after, Len(before) + 1, Len(after))

\* the records a receiver with byte order ler gets out of the datagrams k ..
\* of `sent` that went to peer d
RECURSIVE ParsedFor(_, _, _, _)
ParsedFor(ler, sent, d, k) ==
  IF k > Len(sent) THEN <<>>
  ELSE (IF sent[k].to = d THEN zprn_parse(ler, sent[k].buf) ELSE <<>>)
         \o ParsedFor(ler, sent, d, k + 1)

\* the records of a batch that are addressed to peer d, as a receiver sees them
EnqueuedFor(msgs, d) ==
  LET mine(m) == d \in RangeOf(m.dests)
      to_d == SelectSeq(msgs, mine)
  IN  [k \in DOMAIN to_d |-> [zprn_cmd |-> to_d[k].zprn.zprn_cmd,
                               zprn_prio |-> to_d[k].zprn.zprn_prio,
                               type |-> AddrType(to_d[k].zprn.route),
                               addr |-> addr_mem(to_d[k].zprn.route)]]

\* C15: whatever batch of ZPRN v2 records the worker sends, every peer gets,
\* by parsing the datagrams sent to it in order, exactly the records that were
\* enqueued for it (command, priority, address family, address bytes), on a
\* sender and a receiver of either byte order; the family tag of the first
\* record of every datagram is on the wire in network byte order.
C15_RoundTrip ==
  [][ev'.op = "sendzprn" =>
       LET sent == LastSent(net, net')
       IN  /\ \A d \in RangeOf(remotes), ler \in BOOLEAN :
                ParsedFor(ler, sent, d, 1) = EnqueuedFor(worker.zprn_msgs, d)
           /\ \A i \in DOMAIN sent :
                /\ SubSeq(sent[i].buf, 1, 4) = <<0, 2, 0, 0>>
                /\ sent[i].buf[7] = 0
                /\ sent[i].buf[8] \in {IAFA_AT_INET, IAFA_AT_INET6}]_vars

\* a little-endian host has sent a batch in which one peer got two datagrams,
\* the first of them with IPv4 and IPv6 records
C15_Witness ==
  /\ ev.op = "sendzprn"
  /\ host_le
  /\ \E i, j \in DOMAIN net :
       /\ i < j
       /\ net[i].kind = "zprn" /\ net[j].kind = "zprn"
       /\ net[i].to = net[j].to
       /\ {r.type : r \in RangeOf(zprn_parse(TRUE, net[i].buf))} = {IAFA_AT_INET, IAFA_AT_INET6}

---------------------------------------------------------------------------
(* ping_cache_t on its own: init and match as route_packet calls them *)

\* ping_cache_t::data_t values of echo and echo-reply packets
PingData == [src : {1, 2}, dst : {1, 2}, id : {7, 8}, seq : {1, 2}]

\* ttl of a packet that got past the ttl test of route_packet
PingTtls == {1, 63, 255}

InitPing == InitWith({<<1, 2>>})

PingFrame == <<pdat, remotes, routes, last_time, pastt_clu, found_remotes, tasks, zprn_msgs, host_le, probed, sender_vars>>

PingInit(dat, router) ==
  /\ ping_cache' = ping_init(dat, router)
  /\ ev' = [op |-> "ping_init", peer |-> router, arg |-> dat, log |-> no_log]
  /\ UNCHANGED PingFrame

PingMatch(dat, router, ttl, rtt) ==
  /\ \E m \in {ping_match(ping_cache, dat, router, ttl, rtt)} :
       /\ ping_cache' = m.pc
       /\ ev' = [op |-> "ping_match", peer |-> router, arg |-> [dat |-> dat, ttl |-> ttl],
                 log |-> <<m.match, m.hops>>]
  /\ UNCHANGED PingFrame

NextPing ==
  \/ \E dat \in PingData, router \in RangeOf(remotes) : PingInit(dat, router)
  \/ \E dat \in PingData, router \in RangeOf(remotes), ttl \in PingTtls, rtt \in LatencySet :
       PingMatch(dat, router, ttl, rtt)

SpecPing == InitPing /\ [][NextPing]_vars

\* the stored fingerprint is the one of the request a reply `dat` answers
PingAnswers(pc, dat) ==
  pc.valid /\ dat.src = pc.dst /\ dat.dst = pc.src /\ dat.id = pc.id /\ dat.seq = pc.seq

\* C16: a match with the swapped fingerprint of the stored request and the
\* same id and sequence number reports a match with hops = MAXTTL - ttl + 1 and
\* empties the slot, so that the same call again does not match; any other
\* match call reports no match and leaves the slot as it was.
C16_PingMatch ==
  [][ev'.op = "ping_match" =>
       IF PingAnswers(ping_cache, ev'.arg.dat)
       THEN /\ ev'.log = <<TRUE, MAXTTL - ev'.arg.ttl + 1>>
            /\ ~ping_cache'.valid
            /\ ~ping_match(ping_cache', ev'.arg.dat, ev'.peer, ev'.arg.ttl, 0).match
       ELSE /\ ev'.log[1] = FALSE
            /\ ping_cache' = ping_cache]_vars

\* a reply has matched the stored request and emptied the slot
C16_Witness ==
  /\ ev.op = "ping_match"
  /\ ev.log[1]
  /\ ev.log[2] = MAXTTL - 63 + 1
  /\ ~ping_cache.valid

---------------------------------------------------------------------------
(* ICMP echo and echo-reply through route_packet *)

\* replies of the remote host 3 and requests of the remote host 2
EchoUdpPackets ==
  V4Packets({3}, {1, 2}, {63, 64}, {"echoreply"}) \cup V4Packets({2}, {1, 3}, {64}, {"echo"})

\* requests of the local host, one of them with another sequence number, and
\* its reply to host 2
EchoTunPackets ==
  {Packet(4, 1, 3, 64, "echo"), [Packet(4, 1, 3, 64, "echo") EXCEPT !.seq = 2],
   Packet(4, 1, 2, 64, "echoreply")}

\* rtt: elapsed ms between init and match
EchoRtt == CHOOSE l \in LatencySet : TRUE

NextEcho ==
  \/ \E sa \in {1, 2}, pkt \in EchoUdpPackets : RecvUdp(sa, pkt, FALSE, EchoRtt)
  \/ \E pkt \in EchoTunPackets : RecvTun(pkt, FALSE, EchoRtt)
  \/ SenderTake

SpecEcho == InitIngress /\ [][NextEcho]_vars

\* the step matched an echo-reply with the recorded request: only match
\* empties the slot
StepPingMatched == ev'.op \in {"udp", "tun"} /\ ping_cache.valid /\ ~ping_cache'.valid

\* the ttl of the step's packet when route_packet is through with it
StepTtlOut ==
  IF ev'.op = "udp" /\ ~am_ii_addr(ev'.arg.dst, TRUE) THEN ev'.arg.ttl - 1 ELSE ev'.arg.ttl

\* the routing table of the step after resolve_route
StepResolved ==
  resolve_route(routes, pdat', remotes', ev'.peer, ev'.arg.src, ev'.arg.dst, StepTtlOut,
                ev'.op = "udp" /\ am_ii_addr(ev'.arg.dst, TRUE), FALSE, last_time).routes

\* the step has done what update_router does with the entry keyed by K, for
\* the peer the reply came from, the observed ttl t and the elapsed time, and
\* nothing else after resolve_route
StepUpdated(K, t) ==
  /\ DOMAIN routes' = DOMAIN StepResolved
  /\ \A a \in DOMAIN routes' : a # K => routes'[a] = StepResolved[a]
  /\ K \in DOMAIN routes'
  /\ Len(routes'[K].routers) = Len(StepResolved[K].routers)
  /\ \A i \in DOMAIN routes'[K].routers :
       LET old == StepResolved[K].routers[i]
       IN  routes'[K].routers[i] =
             IF find_router(StepResolved[K].routers, pdat', ev'.peer) = i
             THEN [addr |-> old.addr, seen |-> last_time, latency |-> EchoRtt,
                   hops |-> update_hopcnt(old.hops, MAXTTL - t + 1)]
             ELSE old

\* C17 as stated: on a match the entry keyed by the source address of the
\* recorded echo request is the one update_router is applied to, with the
\* reply's ttl as it arrived.
C17_AsStated ==
  [][StepPingMatched => StepUpdated(ping_cache.src, ev'.arg.ttl)]_vars

\* C17: on a match update_router is applied to the entry keyed by the source
\* address of the echo-reply, which is the destination of the recorded
\* request, for the peer the reply came from, with hops = MAXTTL - t + 1 for
\* the ttl t route_packet has written back (the arriving ttl on an endpoint,
\* one less on a forwarding node) and the elapsed time as latency.
C17_PingRtt ==
  [][StepPingMatched =>
       /\ ev'.arg.src = ping_cache.dst
       /\ StepUpdated(ev'.arg.src, StepTtlOut)]_vars

\* a reply from a remote host came back through the peer the request went to:
\* that router of the entry of the remote host carries the measured latency
C17_Witness ==
  /\ ev.op = "udp" /\ ev.arg.kind = "echoreply"
  /\ ~ping_cache.valid
  /\ ev.arg.src \in DOMAIN routes
  /\ \E i \in DOMAIN routes[ev.arg.src].routers :
       LET a == routes[ev.arg.src].routers[i]
       IN  a.addr = ev.peer /\ a.latency = EchoRtt /\ a.hops = MAXTTL - ev.arg.ttl + 1

\* <<destination, frame>> for every transmission of a data frame so far
DataSent ==
  LET data(t) == t.kind # "zprn"
      ts == SelectSeq(net, data)
  IN  [i \in DOMAIN ts |-> <<ts[i].to, ts[i].buf>>]

\* <<destination, frame>> for the frames k .. of the enqueue log, each frame
\* once for every destination of its list
RECURSIVE DataDue(_)
DataDue(k) ==
  IF k > Len(enqlog) THEN <<>>
  ELSE [i \in DOMAIN enqlog[k].dests |-> <<enqlog[k].dests[i], enqlog[k].buffer>>]
         \o DataDue(k + 1)

\* C18: at every moment the data frames transmitted so far are, in order and
\* once per destination, a beginning of the frames enqueued so far; they are
\* all of them whenever the worker has nothing left to drain.
C18_SenderFifo ==
  /\ Len(DataSent) <= Len(DataDue(1))
  /\ DataSent = SubSeq(DataDue(1), 1, Len(DataSent))
  /\ (worker.pc \in {"wait", "exited"} /\ tasks = <<>>) => DataSent = DataDue(1)

\* two frames, enqueued while the worker was busy with the earlier one, have
\* gone out in two rounds, the first of them to two peers
C18_Witness ==
  /\ Len(enqlog) = 2
  /\ enqlog[1].dests = <<2, 1>>
  /\ DataSent = DataDue(1)
  /\ \E i, j \in DOMAIN net :
       /\ i < j
       /\ net[i].kind = "data" /\ net[i].buf = 1
       /\ net[j].kind = "data" /\ net[j].buf = 2
       /\ \E k \in DOMAIN net : i < k /\ k < j /\ net[k].kind = "zprn"

\* where the loop of handle_zprn_v2_pkt stops in buf
ParsedUpTo(buf) ==
  zprn_parse_loop(TRUE, buf, [bptr |-> 4, out |-> <<>>, done |-> FALSE], Len(buf) \div 4).bptr

\* C19: in every batch, for every peer: each of its datagrams starts with the
\* header 00 02 00 00, is made of whole records, at least one, and carries at
\* most 1232 bytes of records; the records read across its datagrams in send
\* order are the records enqueued for it, in enqueue order, each once.
C19_Batching ==
  [][ev'.op = "sendzprn" =>
       LET sent == LastSent(net, net')
       IN  /\ \A i \in DOMAIN sent :
                LET buf == sent[i].buf
                IN  /\ SubSeq(buf, 1, 4) = <<0, 2, 0, 0>>
                    /\ Len(zprn_parse(TRUE, buf)) >= 1
                    /\ ParsedUpTo(buf) = Len(buf)
                    /\ Len(buf) - 4 <= 1232
           /\ \A d \in RangeOf(remotes) :
                ParsedFor(TRUE, sent, d, 1) = EnqueuedFor(worker.zprn_msgs, d)]_vars

\* a batch has been split: a peer got a datagram of exactly 1232 bytes and
\* another one after it
C19_Witness ==
  /\ ev.op = "sendzprn"
  /\ \E i, j \in DOMAIN net :
       /\ i < j
       /\ net[i].kind = "zprn" /\ net[j].kind = "zprn"
       /\ net[i].to = net[j].to
       /\ Len(net[i].buf) = 1232

\* a datagram to peer d with the CONNMGMT close record has been sent
CloseSentTo(d) ==
  \E i \in DOMAIN net :
    /\ net[i].kind = "zprn"
    /\ net[i].to = d
    /\ \E r \in RangeOf(zprn_parse(TRUE, net[i].buf)) :
         /\ r.zprn_cmd = ZPRN_CONNMGMT
         /\ r.zprn_prio = ZPRN_CONNMGMT_CLOSE
         /\ r.addr = addr_mem(locals[1])

\* C20 as stated: when main has returned, the CONNMGMT close record has been
\* transmitted to every registered peer.
C20_AsStated == mainpc = "returned" => \A d \in RangeOf(remotes) : CloseSentTo(d)

---------------------------------------------------------------------------
(* the cleanup pass: peers, routes, reconnection and the registry          *)

\* the registered peers listed as routers of entry k in the routing table rt
RouterPeersOf(rt, k) ==
  IF k \in DOMAIN rt
  THEN {rt[k].routers[i].addr : i \in DOMAIN rt[k].routers} \ {local_router, anon_local}
  ELSE {}

\* the routers the aging of the step removed from entry k
StepAgedOut(k) ==
  {ev'.log[j].router : j \in {n \in DOMAIN ev'.log :
                                ev'.log[n].what = "outdated" /\ ev'.log[n].dest = k}}

\* C21: after every cleanup pass no routing entry holds a router whose peer
\* is marked to_discard, and a router whose peer is not discarded leaves its
\* entry in that pass only by aging.
C21_DiscardedLeave ==
  [][ev'.op = "tick" =>
       \A k \in InnerAddrs :
         /\ \A p \in RouterPeersOf(routes', k) : ~pdat'[p].to_discard
         /\ \A p \in RouterPeersOf(routes, k) :
              (~pdat'[p].to_discard /\ p \notin StepAgedOut(k))
                => p \in RouterPeersOf(routes', k)]_vars

\* a pass has discarded a peer that was a router of a destination and has
\* left a second router of the same destination, a peer that stays, in place
C21_Witness ==
  /\ ev.op = "tick"
  /\ \E j \in DOMAIN ev.log :
       /\ ev.log[j].what = "discarded"
       /\ pdat[ev.log[j].router].to_discard
       /\ \E q \in RouterPeersOf(routes, ev.log[j].dest) :
            q \in RangeOf(remotes) /\ ~pdat[q].to_discard

---------------------------------------------------------------------------
(* announcements of the cleanup pass: both remotes are configured and      *)
(* resolve at every pass, so the registry holds two peers throughout       *)

\* the datagrams: the socket address they come from and their record
AnnounceRecs ==
  {<<1, Rec(ZPRN_ROUTEMOD, 254, 3)>>, <<1, Rec(ZPRN_ROUTEMOD, 255, 3)>>,
   <<2, Rec(ZPRN_ROUTEMOD, 0, 3)>>}

\* an IP packet for the node itself, arriving from the second remote
AnnouncePacket == Packet(4, 7, 1, 2, "data")

\* seconds between two passes of the main loop
AnnounceSteps == {2, 5}

InitAnnounce == InitWith({<<1, 2>>})

NextAnnounce ==
  \/ \E d \in AnnounceRecs : RecvZprn(d[1], <<d[2]>>)
  \/ \E rtt \in LatencySet : RecvUdp(2, AnnouncePacket, FALSE, rtt)
  \/ SenderTake
  \/ \E dt \in AnnounceSteps : TimeStep(dt, <<1, 2>>)

SpecAnnounce == InitAnnounce /\ [][NextAnnounce]_vars

\* the ROUTEMOD records for dest the step appended to the ZPRN queue
StepRoutemods(dest) ==
  LET hit(m) == m.zprn.zprn_cmd = ZPRN_ROUTEMOD /\ m.zprn.route = dest
  IN  SelectSeq(StepNewZprn, hit)

\* C22: in each cleanup pass every entry that is empty after aging gets
\* exactly one ROUTEMOD delete (prio 0xff), every other entry with fresh_add
\* set exactly one ROUTEMOD add whose prio is the hop count of its primary
\* router after the sort, and an entry that is neither gets no ROUTEMOD.
C22_AsStated ==
  [][ev'.op = "tick" =>
       \A k \in DOMAIN routes :
         LET new == StepRoutemods(k)
         IN  IF k \notin DOMAIN routes'
             THEN Len(new) = 1 /\ new[1].zprn.zprn_prio = 255
             ELSE IF routes[k].fresh_add
             THEN /\ Len(new) = 1
                  /\ new[1].zprn.zprn_prio = routes'[k].routers[1].hops
                  /\ new[1].zprn.zprn_prio # 255
             ELSE new = <<>>]_vars

\* the same for the entries whose primary router after the sort has a hop
\* count other than 0xff
C22_BelowMax ==
  [][ev'.op = "tick" =>
       \A k \in DOMAIN routes :
         LET new == StepRoutemods(k)
         IN  IF k \notin DOMAIN routes'
             THEN Len(new) = 1 /\ new[1].zprn.zprn_prio = 255
             ELSE IF routes'[k].routers[1].hops = 255 THEN TRUE
             ELSE IF routes[k].fresh_add
             THEN /\ Len(new) = 1
                  /\ new[1].zprn.zprn_prio = routes'[k].routers[1].hops
             ELSE new = <<>>]_vars

\* entry k of the routing table rt has fresh_add set
FreshIn(rt, k) == k \in DOMAIN rt /\ rt[k].fresh_add

\* the step called add_router on entry k: a ROUTEMOD add or CONNMGMT open
\* record for a foreign address k, or a packet with inner source k that got
\* as far as resolve_route
StepAddsRouter(k) ==
  \/ /\ ev'.op = "zprn"
     /\ \E i \in DOMAIN ev'.arg :
          /\ ev'.arg[i].route = k /\ ~am_ii_addr(k, TRUE)
          /\ \/ ev'.arg[i].zprn_cmd = ZPRN_ROUTEMOD /\ ev'.arg[i].zprn_prio # 255
             \/ ev'.arg[i] = Rec(ZPRN_CONNMGMT, ZPRN_CONNMGMT_OPEN, k)
  \/ /\ StepVerified /\ ~StepTtlLow /\ StepPastMulticast
     /\ ev'.arg.src = k

\* C23: a completed cleanup pass leaves no entry with an empty router list
\* and no entry with fresh_add set; any other step leaves fresh_add of an
\* entry set iff it was set before or the step called add_router on the
\* entry while it was empty.
C23_FreshAdd ==
  [][IF ev'.op = "tick"
     THEN \A k \in DOMAIN routes' : routes'[k].routers # <<>> /\ ~routes'[k].fresh_add
     ELSE \A k \in InnerAddrs :
            FreshIn(routes', k) <=>
              (FreshIn(routes, k) \/ (StepAddsRouter(k) /\ ~have_route(routes, k)))]_vars

\* between two passes: an entry that was announced and then emptied by a
\* ROUTEMOD delete has got a router again and is fresh, next to an entry
\* that kept its router and is not fresh
C23_Witness ==
  /\ ev.op = "zprn" /\ ev.arg[1] = Rec(ZPRN_ROUTEMOD, 0, 3)
  /\ pastt_clu > 0
  /\ have_route(routes, 3) /\ routes[3].fresh_add /\ Len(routes[3].routers) = 1
  /\ routes[3].routers[1].seen = last_time
  /\ have_route(routes, 7) /\ ~routes[7].fresh_add

---------------------------------------------------------------------------
(* PROBE requests: the handlers alone, no time passes                      *)

RequestRecs ==
  {Rec(ZPRN_ROUTEMOD, 0, 3), Rec(ZPRN_ROUTEMOD, 254, 3), Rec(ZPRN_ROUTEMOD, 255, 3),
   Rec(ZPRN2_PROBE, 255, 3), Rec(ZPRN2_PROBE, 254, 3), Rec(ZPRN2_PROBE, 0, 3),
   Rec(ZPRN2_PROBE, 255, 1), Rec(ZPRN2_PROBE, 254, 7)}

NextRequests ==
  \/ \E sa \in SockAddrs, d \in RequestRecs : RecvZprn(sa, <<d>>)
  \/ SenderTake

SpecRequests == InitHandlers /\ [][NextRequests]_vars

\* the step handled one PROBE request record
StepProbeReq ==
  /\ ev'.op = "zprn"
  /\ ev'.arg[1].zprn_cmd = ZPRN2_PROBE /\ ev'.arg[1].zprn_prio \in {254, 255}

\* the one record with the given command and prio for dest, addressed to peer
\* p alone
ReplyTo(p, cmd, prio, dest) ==
  <<[zprn |-> Rec(cmd, prio, dest), dests |-> <<p>>, confirmed |-> p]>>

---------------------------------------------------------------------------
(* route additions: ROUTEMOD add and CONNMGMT open records alone            *)

AddRecs ==
  {Rec(ZPRN_ROUTEMOD, 0, 3), Rec(ZPRN_ROUTEMOD, 254, 3), Rec(ZPRN_ROUTEMOD, 190, 3),
   Rec(ZPRN_ROUTEMOD, 3, 4),
   Rec(ZPRN_CONNMGMT, ZPRN_CONNMGMT_OPEN, 2), Rec(ZPRN_CONNMGMT, ZPRN_CONNMGMT_OPEN, 1)}

NextAdd ==
  \/ \E sa \in {1, 2}, d \in AddRecs : RecvZprn(sa, <<d>>)
  \/ SenderTake

SpecAdd == InitHandlers /\ [][NextAdd]_vars

\* the step handled one ROUTEMOD add or one CONNMGMT open record; the hop
\* count the record stands for
StepAddRecord ==
  /\ ev'.op = "zprn"
  /\ \/ ev'.arg[1].zprn_cmd = ZPRN_ROUTEMOD /\ ev'.arg[1].zprn_prio < 255
     \/ ev'.arg[1] = Rec(ZPRN_CONNMGMT, ZPRN_CONNMGMT_OPEN, ev'.arg[1].route)

StepAddHops == IF ev'.arg[1].zprn_cmd = ZPRN_ROUTEMOD THEN ev'.arg[1].zprn_prio + 1 ELSE 1

\* C26: a ROUTEMOD record with prio p < 0xff for dest from P makes the entry
\* of dest the result of add_router(P, p + 1), a CONNMGMT open that of
\* add_router(P, 1): P is a router of dest seen now, with exactly that hop
\* count (between 1 and 0xff) if it was not one before, and the other routers
\* stay as they are.  For a local or exported dest the table is unchanged.
\* In neither case does the handler enqueue a ZPRN message.
C26_AddRecords ==
  [][StepAddRecord =>
       LET dest == ev'.arg[1].route
           P == ev'.peer
           old == route_at(routes, dest).routers
           was == find_router(old, pdat', P)
       IN  /\ zprn_msgs' = zprn_msgs
           /\ StepAddHops \in 1 .. 255
           /\ IF am_ii_addr(dest, TRUE) THEN routes' = routes
              ELSE /\ routes' = route_put(routes, dest,
                                  add_router(route_at(routes, dest), pdat', P,
                                             StepAddHops, last_time).rv)
                   /\ IF was = 0
                      THEN routes'[dest].routers = <<via_router_t(P, StepAddHops, last_time)>> \o old
                      ELSE /\ Len(routes'[dest].routers) = Len(old)
                           /\ routes'[dest].routers[was].seen = last_time
                           /\ \A i \in DOMAIN old \ {was} : routes'[dest].routers[i] = old[i]]_vars

\* a ROUTEMOD add with prio 0xfe has put a second router, with hop count
\* 0xff, in front of the router a CONNMGMT open had made
C26_Witness ==
  /\ ev.op = "zprn" /\ ev.arg[1] = Rec(ZPRN_ROUTEMOD, 254, 3)
  /\ have_route(routes, 3) /\ Len(routes[3].routers) = 2
  /\ routes[3].routers[1] = via_router_t(ev.peer, 255, last_time)
  /\ have_route(routes, 2) /\ routes[2].routers[1].hops = 1
  /\ 4 \notin DOMAIN routes
  /\ zprn_msgs = <<>>

---------------------------------------------------------------------------
(* the peers in the cleanup pass: the first configured remote has no       *)
(* address at startup and may get address 1 later; the second starts at    *)
(* address 2 and its name later resolves to 2, to 3 or not at all; a peer  *)
(* that is not configured sends from address 3                             *)

PeerRecs == {<<3, Rec(ZPRN_ROUTEMOD, 0, 3)>>, <<2, Rec(ZPRN_ROUTEMOD, 1, 3)>>}

PeerResolutions == {<<0, 0>>, <<0, 2>>, <<0, 3>>, <<1, 2>>}

\* seconds between two passes of the main loop
PeerSteps == {2, 4, 5}

NextPeers ==
  \/ \E d \in PeerRecs : RecvZprn(d[1], <<d[2]>>)
  \/ SenderTake
  \/ \E dt \in PeerSteps, res \in PeerResolutions : TimeStep(dt, res)

SpecPeers == InitTick /\ [][NextPeers]_vars

\* no other registered peer has the socket address of p, before or after the
\* step
StepNoTwin(p) ==
  \A q \in RangeOf(remotes) \ {p} :
    SA(pdat, q) # SA(pdat, p) /\ SA(pdat', q) # SA(pdat', p)

\* what the cleanup pass does to a peer that has no twin, given the age up to
\* which a peer counts as fresh: a fresh peer is left as it is; any other is
\* kept, with seen set to now, if it has a config entry whose name resolves
\* in this pass, and is marked to_discard if not
StepTimeoutRule(fresh) ==
  \A dt \in PeerSteps, res \in PeerResolutions :
    (TimeStep(dt, res) /\ ev'.op = "tick") =>
      \A p \in RangeOf(remotes) :
        StepNoTwin(p) =>
          IF fresh[last_time' - pdat[p].seen] THEN pdat'[p] = pdat[p]
          ELSE IF pdat[p].cent # 0 /\ res[pdat[p].cent] # 0
          THEN ~pdat'[p].to_discard /\ pdat'[p].seen = last_time'
          ELSE pdat'[p].to_discard

\* C27 as stated: a peer is fresh up to and including the age remote_timeout.
C27_AsStated ==
  [][StepTimeoutRule([age \in 0 .. MaxTime |-> age <= remote_timeout])]_vars

\* C27 amended: a peer is fresh only below the age remote_timeout.
C27_TimeoutRule ==
  [][StepTimeoutRule([age \in 0 .. MaxTime |-> age < remote_timeout])]_vars

\* a pass has kept the configured peer, last seen exactly remote_timeout
\* ago, by resolving its name again, and has discarded a peer of the same
\* age that is not configured
C27_Witness ==
  /\ ev.op = "tick" /\ last_time = remote_timeout
  /\ \E p, q \in DOMAIN pdat :
       /\ pdat[p].cent # 0 /\ ~pdat[p].to_discard /\ pdat[p].seen = last_time
       /\ p \in RangeOf(remotes)
       /\ pdat[q].cent = 0 /\ pdat[q].to_discard /\ pdat[q].seen = 0
       /\ q \notin RangeOf(remotes)

\* peer p passes the timeout test of a pass in which the names resolve to
\* res, and the socket address it has after the test
StepLive(p, res) ==
  \/ not_timed_out(pdat[p].seen, last_time')
  \/ pdat[p].cent # 0 /\ res[pdat[p].cent] # 0

StepAddr(p, res) ==
  IF not_timed_out(pdat[p].seen, last_time') \/ ~StepLive(p, res)
  THEN SA(pdat, p)
  ELSE res[pdat[p].cent]

\* registry positions i < k hold two live peers with equal socket address,
\* the later one fresh, and no third peer comes near that address
StepTwins(i, k, res) ==
  /\ i < k
  /\ StepLive(remotes[i], res)
  /\ not_timed_out(pdat[remotes[k]].seen, last_time')
  /\ StepAddr(remotes[i], res) = SA(pdat, remotes[k])
  /\ \A j \in DOMAIN remotes \ {i, k} :
       /\ SA(pdat, remotes[j]) # SA(pdat, remotes[k])
       /\ StepAddr(remotes[j], res) # SA(pdat, remotes[k])

StepUseCount(p) == use_count(p, routes, ping_cache, tasks, zprn_msgs)

\* C28: of two live peers with equal socket address the pass marks exactly
\* one to_discard: the one without config entry if exactly one of them has
\* one, whatever the use counts, and otherwise the one with the lower use
\* count.
C28_AsStated ==
  [][\A dt \in PeerSteps, res \in PeerResolutions :
       (TimeStep(dt, res) /\ ev'.op = "tick") =>
         \A i, k \in DOMAIN remotes :
           StepTwins(i, k, res) =>
             LET a == remotes[i]
                 b == remotes[k]
                 ca == pdat[a].cent # 0
                 cb == pdat[b].cent # 0
             IN  /\ pdat'[a].to_discard # pdat'[b].to_discard
                 /\ (ca /\ ~cb) => pdat'[b].to_discard
                 /\ (cb /\ ~ca) => pdat'[a].to_discard
                 /\ (ca = cb /\ StepUseCount(a) < StepUseCount(b)) => pdat'[a].to_discard
                 /\ (ca = cb /\ StepUseCount(b) < StepUseCount(a)) => pdat'[b].to_discard]_vars

\* the part of it that holds: exactly one of the two is marked, and it is the
\* earlier one in the registry iff that one lacks a config entry the other
\* has or has the lower use count
C28_EarlierOrLater ==
  [][\A dt \in PeerSteps, res \in PeerResolutions :
       (TimeStep(dt, res) /\ ev'.op = "tick") =>
         \A i, k \in DOMAIN remotes :
           StepTwins(i, k, res) =>
             LET a == remotes[i]
                 b == remotes[k]
             IN  /\ pdat'[a].to_discard # pdat'[b].to_discard
                 /\ pdat'[a].to_discard <=>
                      \/ pdat[a].cent = 0 /\ pdat[b].cent # 0
                      \/ StepUseCount(a) < StepUseCount(b)]_vars

\* the registered peers that belong to config entry c
PeersOfEntry(pd, rem, c) == {p \in RangeOf(rem) : pd[p].cent = c}

\* C29: in every cleanup pass each configured remote without a peer in the
\* registry is connected again (a peer for it is registered if its name
\* resolves), also one that had a peer earlier which was discarded.
C29_AsStated ==
  [][\A dt \in PeerSteps, res \in PeerResolutions :
       (TimeStep(dt, res) /\ ev'.op = "tick") =>
         \A c \in DOMAIN res :
           (PeersOfEntry(pdat, remotes, c) = {} /\ res[c] # 0)
             => PeersOfEntry(pdat', remotes', c) # {}]_vars

\* the part of it that holds: the same for a configured remote that never had
\* a peer in the registry during a pass
C29_NeverFound ==
  [][\A dt \in PeerSteps, res \in PeerResolutions :
       (TimeStep(dt, res) /\ ev'.op = "tick") =>
         \A c \in DOMAIN res :
           (PeersOfEntry(pdat, remotes, c) = {} /\ res[c] # 0 /\ ~found_remotes[c])
             => \E p \in PeersOfEntry(pdat', remotes', c) :
                  pdat'[p] = new_peer(res[c], last_time', c)]_vars

---------------------------------------------------------------------------
(* the order of the registry                                               *)

\* no two peers of the registry have the same socket address
NoTwins(vec, pd) == \A i, j \in DOMAIN vec : i # j => SA(pd, vec[i]) # SA(pd, vec[j])

\* the datagram of the step came from a socket address that was registered
StepFromRegistered ==
  \E p \in RangeOf(remotes) : SA(pdat, p) = SA(pdat', ev'.peer)

\* C30: whenever a datagram's source address is looked up, the registry is
\* sorted by socket address and free of twins, and a datagram from a
\* registered address inserts no peer.
C30_AsStated ==
  [][ev'.op \in {"zprn", "udp"} =>
       /\ IsSortedBy(remotes, pdat)
       /\ NoTwins(remotes, pdat)
       /\ StepFromRegistered => remotes' = remotes]_vars

\* the part of it that holds: on a registry that is sorted and free of twins
\* the lookup finds the registered peer, and the registry stays sorted and
\* free of twins when a peer is inserted
C30_OnSorted ==
  [][(ev'.op \in {"zprn", "udp"} /\ IsSortedBy(remotes, pdat) /\ NoTwins(remotes, pdat)) =>
       /\ StepFromRegistered => remotes' = remotes
       /\ IsSortedBy(remotes', pdat') /\ NoTwins(remotes', pdat')]_vars

---------------------------------------------------------------------------
(* forwarding: IP datagrams from two socket addresses and packets from the *)
(* tun device; one or two remotes resolved at startup, in either order of  *)
(* their socket addresses; no time passes                                  *)

\* "err_ext": an ICMPv6 error message behind an extension header, so that
\* ip6_nxt is not 0x3a
ForwardUdpPackets ==
  {Packet(4, 2, 3, 2, "data"), Packet(4, 3, 2, 2, "data"),
   Packet(4, 2, 5, 2, "data"), Packet(4, 2, 5, 2, "err"),
   Packet(4, 2, 3, 2, "err"), Packet(4, 2, 7, 2, "data"),
   [Packet(4, 2, 7, 3, "err_rm") EXCEPT !.emb = 3],
   [Packet(4, 2, 1, 3, "err_rm") EXCEPT !.emb = 3],
   [Packet(4, 2, 1, 3, "err_rm_short") EXCEPT !.emb = 3],
   Packet(6, 22, 21, 0, "err_ext"),
   Packet(4, 2, 6, 2, "data"), Packet(6, 22, 23, 2, "data")}

ForwardTunPackets == {Packet(4, 1, 5, 2, "data"), Packet(4, 1, 3, 2, "data")}

InitForward == InitWith({<<1, 2>>, <<2, 1>>, <<0, 2>>})

NextForward ==
  \/ \E sa \in {1, 2}, pkt \in ForwardUdpPackets, coin \in BOOLEAN : RecvUdp(sa, pkt, coin, 12)
  \/ \E pkt \in ForwardTunPackets : RecvTun(pkt, FALSE, 12)
  \/ SenderTake

SpecForward == InitForward /\ [][NextForward]_vars

\* the frames of the queue that carry the packet of the step (and no ICMP
\* message the node made itself)
ForwardedFrames(q, pkt) ==
  {i \in DOMAIN q : q[i].buf.kind = pkt.kind /\ q[i].buf.src = pkt.src /\ q[i].buf.dst = pkt.dst}

\* the step took a data packet from a peer through resolve_route
StepDataFromPeer ==
  /\ ev'.op = "udp" /\ ev'.arg.kind = "data"
  /\ StepVerified /\ ~StepTtlLow /\ StepPastMulticast

\* the routing table after resolve_route learned the source of the packet
StepLearned ==
  route_put(routes, ev'.arg.src,
            add_router(route_at(routes, ev'.arg.src), pdat', ev'.peer,
                       learned_hops(ev'.arg.src,
                                    IF am_ii_addr(ev'.arg.dst, TRUE)
                                    THEN ev'.arg.ttl ELSE ev'.arg.ttl - 1),
                       last_time).rv)

\* resolve_route reaches the test for a known route
StepLooksUpRoute ==
  /\ ~am_ii_addr(ev'.arg.dst, TRUE)
  /\ ~is_direct_broadcast(ev'.arg.dst)

\* C31 as stated: a data packet received from peer P is never enqueued with a
\* destination that is P, i.e. that has the socket address the packet came
\* from; without a route to the destination the target is the registry
\* without P, and nothing is enqueued when that is empty.
C31_AsStated ==
  [][StepDataFromPeer =>
       /\ \A i \in ForwardedFrames(tasks', ev'.arg) :
            \A j \in DOMAIN tasks'[i].dests :
              SA(pdat', tasks'[i].dests[j]) # SA(pdat', ev'.peer)
       /\ (StepLooksUpRoute /\ ~have_route(StepLearned, ev'.arg.dst)
             /\ ev'.arg.dst \notin blocked_broadcast_dsts) =>
            \A i \in ForwardedFrames(tasks', ev'.arg) :
              tasks'[i].dests = SelectSeq(remotes', LAMBDA p : SA(pdat', p) # SA(pdat', ev'.peer))]_vars

\* C31 by object identity: the peer object the datagram was attributed to is
\* in no destination list, and the flood target is the registry without it
C31_ByIdentity ==
  [][StepDataFromPeer =>
       /\ \A i \in ForwardedFrames(tasks', ev'.arg) :
            \A j \in DOMAIN tasks'[i].dests : tasks'[i].dests[j] # ev'.peer
       /\ (StepLooksUpRoute /\ ~have_route(StepLearned, ev'.arg.dst)
             /\ ev'.arg.dst \notin blocked_broadcast_dsts) =>
            /\ \A i \in ForwardedFrames(tasks', ev'.arg) :
                 tasks'[i].dests = SelectSeq(remotes', LAMBDA p : p # ev'.peer)
            /\ (ForwardedFrames(tasks', ev'.arg) = {})
                 = (SelectSeq(remotes', LAMBDA p : p # ev'.peer) = <<>>)]_vars

\* C31 on a registry without twins: no destination has the socket address
\* the packet came from
C31_OnTwinFree ==
  [][(StepDataFromPeer /\ NoTwins(remotes', pdat')) =>
       \A i \in ForwardedFrames(tasks', ev'.arg) :
         \A j \in DOMAIN tasks'[i].dests :
           SA(pdat', tasks'[i].dests[j]) # SA(pdat', ev'.peer)]_vars

\* the step took a packet for a blocked broadcast destination, for which no
\* route is known, through resolve_route
StepBlockedDest ==
  /\ ev'.op \in {"udp", "tun"}
  /\ StepVerified /\ ~StepTtlLow /\ StepPastMulticast
  /\ ev'.arg.dst \in blocked_broadcast_dsts
  /\ ~have_route(routes, ev'.arg.dst)

\* C32 as stated: a packet for a blocked broadcast destination without a
\* known route is forwarded to no peer and produces no emission at all, in
\* particular no ICMP unreachable toward its source.
C32_AsStated ==
  [][StepBlockedDest => (tasks' = tasks /\ zprn_msgs' = zprn_msgs)]_vars

\* C32, the part that holds: such a packet is forwarded to no peer; what is
\* enqueued is at most one ICMP unreachable toward the source peer
C32_NotForwarded ==
  [][StepBlockedDest =>
       /\ ForwardedFrames(tasks', ev'.arg) = {}
       /\ zprn_msgs' = zprn_msgs
       /\ \A i \in DOMAIN tasks' :
            /\ tasks'[i].buf.kind \in {"unreach_host", "unreach_net"}
            /\ tasks'[i].dests = IF ev'.op = "tun" THEN <<>> ELSE <<ev'.peer>>]_vars

\* the packet of the step is an ICMP error message (whether or not
\* route_packet / route6_packet recognises it)
StepIcmpError == ev'.arg.kind \in {"err", "err_rm", "err_rm_short", "err_ext"}

\* the step took a packet through resolve_route, which returned no target
StepEmptyTarget ==
  /\ ev'.op \in {"udp", "tun"}
  /\ StepVerified /\ ~StepTtlLow /\ StepPastMulticast
  /\ resolve_route(routes, pdat', remotes', ev'.peer, ev'.arg.src, ev'.arg.dst,
                   IF ev'.op = "udp" /\ ~am_ii_addr(ev'.arg.dst, TRUE)
                   THEN ev'.arg.ttl - 1 ELSE ev'.arg.ttl,
                   ev'.op = "udp" /\ am_ii_addr(ev'.arg.dst, TRUE),
                   FALSE, last_time).ret = <<>>

\* dst lies in the subnet of the first local address of its family
InSubnetOfLocal(dst) ==
  /\ local_addr_of(AddrType(dst)) # 0
  /\ xner_apply_netmask(AddrBytes(local_addr_of(AddrType(dst))), local_nmsk(AddrType(dst)))
       = xner_apply_netmask(AddrBytes(dst), local_nmsk(AddrType(dst)))

\* the queue holds exactly one ICMP message of the given kind, toward the
\* source of the step's packet
OneIcmpToSource(kind) ==
  /\ Len(tasks') = 1
  /\ tasks'[1].buf.kind = kind
  /\ tasks'[1].buf.dst = ev'.arg.src
  /\ tasks'[1].dests = IF ev'.op = "tun" THEN <<>> ELSE <<ev'.peer>>

IcmpErrorsMade == {"ttl_exceeded", "unreach_host", "unreach_net"}

\* C33 as stated: on an empty target the packet is not forwarded; a packet
\* that is no ICMP error message is answered by exactly one ICMP unreachable
\* toward the peer it came from, host-unreachable if the destination lies in
\* the subnet of the first local address of the family and net-unreachable
\* otherwise; an ICMP error message is answered by nothing, and the node
\* never emits an ICMP error in response to an ICMP error.
C33_AsStated ==
  [][/\ StepEmptyTarget =>
          /\ ForwardedFrames(tasks', ev'.arg) = {}
          /\ IF StepIcmpError THEN tasks' = tasks
             ELSE local_addr_of(AddrType(ev'.arg.dst)) # 0 =>
                    OneIcmpToSource(IF InSubnetOfLocal(ev'.arg.dst)
                                    THEN "unreach_host" ELSE "unreach_net")
     /\ (ev'.op \in {"udp", "tun"} /\ StepIcmpError) =>
          \A i \in DOMAIN tasks' : tasks'[i].buf.kind \notin IcmpErrorsMade]_vars

\* C33, what the code does: the code is host-unreachable only when the masked
\* destination equals the first local address itself, and an ICMP error is
\* one that route_packet / route6_packet recognises as such
C33_Generated ==
  [][/\ StepEmptyTarget =>
          /\ ForwardedFrames(tasks', ev'.arg) = {}
          /\ IF is_icmp_errmsg(ev'.arg) THEN tasks' = tasks
             ELSE local_addr_of(AddrType(ev'.arg.dst)) # 0 =>
                    OneIcmpToSource(IF in_local_subnet(ev'.arg.dst)
                                    THEN "unreach_host" ELSE "unreach_net")
     /\ (ev'.op \in {"udp", "tun"} /\ is_icmp_errmsg(ev'.arg)) =>
          \A i \in DOMAIN tasks' : tasks'[i].buf.kind \notin IcmpErrorsMade]_vars

\* C33: an in-subnet destination was answered with net-unreachable
C33_NetForSubnet ==
  /\ ev.op = "udp" /\ ev.arg.kind = "data" /\ InSubnetOfLocal(ev.arg.dst)
  /\ ev.arg.dst \notin blocked_broadcast_dsts
  /\ Len(tasks) = 1 /\ tasks[1].buf.kind = "unreach_net"

\* the step took from a peer an ICMP error of the demoting kinds that embeds
\* a whole original header; X is ev'.arg.emb
StepDemotingError ==
  /\ ev'.op = "udp" /\ ev'.arg.kind = "err_rm"
  /\ StepVerified

\* P is no router for X afterwards, and the error packet is forwarded exactly
\* when no router for X is left
StepDemoted ==
  /\ \A i \in DOMAIN route_at(routes', ev'.arg.emb).routers :
       route_at(routes', ev'.arg.emb).routers[i].addr # ev'.peer
  /\ (ForwardedFrames(tasks', ev'.arg) # {}) = ~have_route(routes', ev'.arg.emb)

\* C34 as stated: an ICMP time-exceeded-in-transit, host-unreachable or
\* net-unreachable that arrives from peer P with an embedded original header
\* for destination X removes P as a router for X, and is forwarded only if no
\* router for X remains afterwards.
C34_AsStated ==
  [][StepDemotingError =>
       /\ \A i \in DOMAIN route_at(routes', ev'.arg.emb).routers :
            route_at(routes', ev'.arg.emb).routers[i].addr # ev'.peer
       /\ (ForwardedFrames(tasks', ev'.arg) # {}) => ~have_route(routes', ev'.arg.emb)]_vars

\* C34 amended: the same for an error packet that passes the multicast test and
\* the ttl test and for whose own destination resolve_route returns a non-empty
\* target; an error packet that is dropped before demotes nothing.
C34_Demotion ==
  [][/\ (StepDemotingError /\ ~StepTtlLow /\ StepPastMulticast /\ ~StepEmptyTarget)
          => StepDemoted
     /\ (StepDemotingError /\ (StepTtlLow \/ ~StepPastMulticast \/ StepEmptyTarget))
          => (tasks' = tasks
              /\ route_at(routes', ev'.arg.emb) = route_at(routes, ev'.arg.emb))]_vars

\* P was one of two routers for X: it is removed and the error is dropped
C34_Witness ==
  /\ ev.op = "udp" /\ ev.arg.kind = "err_rm" /\ ev.arg.dst = 1
  /\ have_route(routes, ev.arg.emb)
  /\ Len(routes[ev.arg.emb].routers) = 1
  /\ routes[ev.arg.emb].routers[1].addr # ev.peer
  /\ probed = {} /\ tasks = <<>>
  /\ \E i \in DOMAIN remotes : remotes[i] = routes[ev.arg.emb].routers[1].addr

---------------------------------------------------------------------------
(* the outer socket options: data frames with varying DF bit and TOS next  *)
(* to ZPRN messages                                                        *)

\* ip_off words: nothing set, MF with an offset, DF with the reserved bit
OptionFrags == {0, 8192 + 5, IP_DF + 32768}
OptionTos == {0, 16}
OptionDests == {<<>>, <<2, 1>>}

InitOptions ==
  /\ host_le = TRUE
  /\ pdat = SenderPeers
  /\ remotes = <<1, 2>>
  /\ found_remotes = <<>>
  /\ routes = local_routes
  /\ ping_cache = empty_ping
  /\ last_time = 0
  /\ pastt_clu = 0
  /\ tasks = <<>>
  /\ \E n \in {0, 1} : zprn_msgs = enqueue_batch(1, n)
  /\ ev = [op |-> "init", peer |-> null_peer, arg |-> 0, log |-> no_log]
  /\ probed = {}
  /\ sender_start

\* the main loop hands a frame to sender.enqueue(send_data&&)
MainEnqueueFrame ==
  /\ mainpc = "loop"
  /\ Len(enqlog) < MaxFrames
  /\ \E ds \in OptionDests, fr \in OptionFrags, ts \in OptionTos :
       /\ tasks' = enqueue_data(tasks, pdat, [buffer |-> Len(enqlog) + 1, dests |-> ds,
                                              frag |-> fr, tos |-> ts])
       /\ enqlog' = Append(enqlog, [buffer |-> Len(enqlog) + 1, dests |-> ds,
                                    frag |-> fr, tos |-> ts])
       /\ ev' = [op |-> "enqueue", peer |-> null_peer, arg |-> Len(ds), log |-> no_log]
  /\ UNCHANGED <<SenderFrame, zprn_msgs, worker, stop, mainpc, net>>

NextOptions ==
  \/ WorkerTake
  \/ WorkerExit
  \/ WorkerSendData
  \/ WorkerNoZprn
  \/ WorkerSendZprn
  \/ MainEnqueueFrame
  \/ MainClose
  \/ MainStop
  \/ MainReturn

SpecOptions == InitOptions /\ [][NextOptions]_vars

\* the frame the data step sent
StepFrame == worker.tasks[worker.k]

\* the options the step rewrote, as <<name, value>> pairs
StepRewrote(name) == {ev'.log[i][2] : i \in {j \in DOMAIN ev'.log : ev'.log[j][1] = name}}

\* C35: at every sendto of a data frame the outer DF setting is the frame's DF
\* bit and the outer TOS the frame's TOS, at every sendto of a ZPRN datagram
\* both are 0, and an option is rewritten exactly when the value wanted
\* differs from the cached one (which is the one in effect).
C35_SocketOptions ==
  [][/\ ev'.op = "senddata" =>
          /\ \A i \in DOMAIN LastSent(net, net') :
               LastSent(net, net')[i].kind = "data" =>
                 /\ LastSent(net, net')[i].df = ((StepFrame.frag \div 16384) % 2 = 1)
                 /\ LastSent(net, net')[i].tos = StepFrame.tos
          /\ StepFrame.dests # <<>> =>
               /\ StepRewrote("df") = IF worker.df # ((StepFrame.frag \div 16384) % 2 = 1)
                                      THEN {~worker.df} ELSE {}
               /\ StepRewrote("tos") = IF worker.tos # StepFrame.tos
                                       THEN {StepFrame.tos} ELSE {}
               /\ Len(ev'.log) <= 2
          /\ StepFrame.dests = <<>> => ev'.log = <<>>
     /\ ev'.op = "sendzprn" =>
          /\ \A i \in DOMAIN LastSent(net, net') :
               ~LastSent(net, net')[i].df /\ LastSent(net, net')[i].tos = 0
          /\ StepRewrote("df") = IF worker.df THEN {FALSE} ELSE {}
          /\ StepRewrote("tos") = IF worker.tos # 0 THEN {0} ELSE {}
          /\ Len(ev'.log) <= 2
     /\ worker'.df = worker'.sock.df /\ worker'.tos = worker'.sock.tos]_vars

\* a frame went out with DF and TOS 16, a later one without DF under the same
\* TOS, and a ZPRN datagram after them with neither
C35_Witness ==
  \E i, j, k \in DOMAIN net :
    /\ i < j /\ j < k
    /\ net[i].kind = "data" /\ net[i].df /\ net[i].tos = 16
    /\ net[j].kind = "data" /\ ~net[j].df /\ net[j].tos = 16
    /\ net[k].kind = "zprn" /\ ~net[k].df /\ net[k].tos = 0
    /\ enqlog[net[i].buf].frag = IP_DF + 32768
    /\ enqlog[net[j].buf].frag = 8192 + 5

\* the destination lies in 224.0.0.0/4, or is an IPv6 multicast address
IsMulticastAddr(a) ==
  IF AddrType(a) = IAFA_AT_INET THEN AddrBytes(a)[1] \div 16 = 14 ELSE AddrBytes(a)[1] = 255

\* the packet of the step left no trace but the refreshed peer
StepDroppedSilently ==
  /\ tasks' = tasks /\ zprn_msgs' = zprn_msgs
  /\ routes' = routes
  /\ ping_cache' = ping_cache

\* C36 as stated: a packet with a multicast destination is not enqueued to the
\* sender, teaches no route, is answered by no ICMP and leaves the ping cache
\* as it is.
C36_AsStated ==
  [][(ev'.op \in {"udp", "tun"} /\ IsMulticastAddr(ev'.arg.dst)) => StepDroppedSilently]_vars

\* C36 on a big-endian build, and for IPv6 on every build
C36_BigEndian ==
  [][(ev'.op \in {"udp", "tun"} /\ IsMulticastAddr(ev'.arg.dst)
        /\ (~host_le \/ ev'.arg.ver = 6))
       => StepDroppedSilently]_vars

\* what the IPv4 test amounts to on a little-endian build: the packets dropped
\* are those whose last destination byte is 224 .. 239
C36_LittleEndian ==
  [][(ev'.op \in {"udp", "tun"} /\ host_le /\ ev'.arg.ver = 4
        /\ AddrBytes(ev'.arg.dst)[4] \div 16 = 14)
       => StepDroppedSilently]_vars

\* C37 as stated: no ROUTEMOD record the node emits for a destination whose
\* entry is non-empty (the announcement of a fresh entry at cleanup, the echo
\* after a ROUTEMOD delete) carries prio 0xff.
C37_AsStated ==
  [][\A k \in DOMAIN routes' :
       routes'[k].routers # <<>> =>
         \A i \in DOMAIN StepRoutemods(k) : StepRoutemods(k)[i].zprn.zprn_prio # 255]_vars

\* what holds instead: such a record carries prio 0xff only when the primary
\* router of the entry has hop count 0xff
C37_BelowMax ==
  [][\A k \in DOMAIN routes' :
       (routes'[k].routers # <<>> /\ routes'[k].routers[1].hops # 255) =>
         \A i \in DOMAIN StepRoutemods(k) : StepRoutemods(k)[i].zprn.zprn_prio # 255]_vars

\* C38 as stated: the entries of the node's own local addresses are never
\* removed, and the node never emits a ROUTEMOD delete (prio 0xff) for one
\* of them.
C38_AsStated ==
  [][\A a \in RangeOf(locals) :
       /\ have_route(routes', a)
       /\ \A i \in DOMAIN StepRoutemods(a) : StepRoutemods(a)[i].zprn.zprn_prio # 255]_vars

\* what holds instead while no CONNMGMT close arrives: the entry of a local
\* address goes, with a ROUTEMOD delete, in the cleanup pass that finds its
\* router not refreshed for 2 * remote_timeout, and in no other step
C38_UntilAged ==
  [][\A a \in RangeOf(locals) :
       have_route(routes, a) =>
         IF ev'.op = "tick" /\ last_time' - 2 * remote_timeout >= routes[a].routers[1].seen
         THEN /\ ~have_route(routes', a)
              /\ \E i \in DOMAIN StepRoutemods(a) : StepRoutemods(a)[i].zprn.zprn_prio = 255
         ELSE /\ have_route(routes', a)
              /\ \A i \in DOMAIN StepRoutemods(a) : StepRoutemods(a)[i].zprn.zprn_prio # 255]_vars

---------------------------------------------------------------------------
(* the node's own addresses: packets and ZPRN records that name a local or *)
(* an exported address, from a peer and from the tun device                *)

OwnUdpPackets ==
  {Packet(4, 1, 3, 2, "data"), Packet(4, 4, 3, 2, "data"), Packet(6, 21, 22, 2, "data"),
   Packet(4, 3, 1, 2, "data"), Packet(4, 3, 4, 2, "echo"), Packet(4, 3, 1, 2, "echo")}

OwnTunPackets ==
  {Packet(4, 4, 3, 2, "data"), Packet(4, 1, 3, 2, "echoreply"), Packet(4, 4, 3, 2, "echoreply")}

OwnRecs ==
  {Rec(ZPRN_ROUTEMOD, 0, 1), Rec(ZPRN_ROUTEMOD, 3, 4), Rec(ZPRN_ROUTEMOD, 0, 21),
   Rec(ZPRN_CONNMGMT, ZPRN_CONNMGMT_OPEN, 1), Rec(ZPRN_CONNMGMT, ZPRN_CONNMGMT_OPEN, 4),
   Rec(ZPRN_ROUTEMOD, 0, 3)}

NextOwn ==
  \/ \E sa \in {1, 3}, pkt \in OwnUdpPackets : RecvUdp(sa, pkt, FALSE, 12)
  \/ \E pkt \in OwnTunPackets : RecvTun(pkt, FALSE, 12)
  \/ \E sa \in {1, 3}, d \in OwnRecs : RecvZprn(sa, <<d>>)
  \/ SenderTake

SpecOwn == InitIngress /\ [][NextOwn]_vars

\* C39: in every reachable state an entry keyed by a local or an exported
\* address of the node lists no remote peer as a router, only the local
\* sentinel.
C39_OwnAddresses ==
  \A a \in DOMAIN routes :
    a \in RangeOf(locals) \cup exported_locals =>
      \A i \in DOMAIN routes[a].routers : routes[a].routers[i].addr = local_router

\* a peer has just sent a ROUTEMOD add for the exported address, whose entry
\* exists with the sentinel alone, while a ROUTEMOD add of the same peer for a
\* foreign address was taken
C39_Witness ==
  /\ ev.op = "zprn" /\ ev.arg[1] = Rec(ZPRN_ROUTEMOD, 3, 4)
  /\ have_route(routes, 4) /\ Len(routes[4].routers) = 1
  /\ have_route(routes, 3) /\ routes[3].routers[1].addr = ev.peer
  /\ ~is_local(pdat, ev.peer)

\* C40 as stated: no routing entry holds two routers that are the same peer
\* object or have equal socket addresses.
C40_AsStated ==
  \A a \in DOMAIN routes :
    \A i, j \in DOMAIN routes[a].routers :
      i < j => /\ routes[a].routers[i].addr # routes[a].routers[j].addr
               /\ SA(pdat, routes[a].routers[i].addr) # SA(pdat, routes[a].routers[j].addr)

\* what holds instead: no entry holds the same peer object twice
C40_ByIdentity ==
  \A a \in DOMAIN routes :
    \A i, j \in DOMAIN routes[a].routers :
      i < j => routes[a].routers[i].addr # routes[a].routers[j].addr

=============================================================================
